---- MODULE Spec2Model ----
(***************************************************************************)
(* Model of the resilient synchronisation engine of ontahood-downloader:   *)
(* the dfr package (dfr/downloads.py, dfr/process.py, dfr/prescan.py,      *)
(* dfr/main.py, dfr/listing.py, dfr/utils.py) and the parts of the older   *)
(* single-file engine drive_fetch_resilient.py that the package still      *)
(* reads (globals, counters, reset_counters, download_thumbnail).          *)
(*                                                                         *)
(* Strings are sequences of one-character strings; a local path is such a  *)
(* sequence too, with "/" as separator.  A file's content is a sequence of *)
(* chunks; the remote content of a video is <<1, 2, .., RemoteSize>> and   *)
(* that of an image <<1, .., ImageSize>>, so that a duplicated, missing or *)
(* misplaced chunk is visible.                                             *)
(***************************************************************************)
EXTENDS Integers, Sequences, FiniteSets, TLC

\* ------------------------------------------------------------------ bounds

\* Length, in chunks, of the remote content of every video.
RemoteSize == 3

\* Length, in chunks, of the remote content of every image.
ImageSize == 2

\* How many requests the environment lets fail before any chunk arrives, in one
\* behaviour.
MaxFaults == 8

\* How many responses the environment breaks in mid-stream (iter_content
\* raises), in one behaviour.
MaxBreaks == 2

\* How many responses may end early (without raising) in one behaviour.
MaxStalls == 1

\* How many faults of any of these three sorts the environment injects in one
\* behaviour of a whole run of main().
RunFaults == 1

\* How many pre-scans one behaviour holds, and how many of their listing
\* calls the environment lets fail.
MaxPlans == 2

PlanFaults == 1

\* The smallest and the largest `retries` argument a call is given.
MinRetries == 3

MaxRetries == 12

\* Responses the environment may break in mid-stream during one call.
RetryBreaks == 1

\* Tasks each pool worker completes in the counting run.
TasksPerWorker == 2

\* ------------------------------------------------------- program constants

\* for attempt in range(1, 9) / if attempt == 8 in download_file_resumable.
ChunkRetries == 8

\* def download_thumbnail(url, out_path, retries=10).
ThumbRetriesDefault == 10

\* if attempt == 10 in drive_fetch_resilient.download_thumbnail.
MonoThumbCeiling == 10

\* def gapi_execute_with_retry(req, retries: int = 8).
GapiRetries == 8

\* url_label = safe_filename(url)[:160]
LabelMax == 160

\* ----------------------------------------------------------------- strings

Str1(a) == <<a>>

RECURSIVE ReplaceUnsafe(_)
\* safe_filename's loop: every one of / \ : * ? " < > | becomes "_".
\* (the model's alphabet holds "/" , ":" and "?" of them)
UnsafeChars == {"/", "\\", ":", "*", "?", "\"", "<", ">", "|"}

ReplaceUnsafe(s) ==
    IF s = <<>> THEN <<>>
    ELSE <<(IF Head(s) \in UnsafeChars THEN "_" ELSE Head(s))>> \o ReplaceUnsafe(Tail(s))

RECURSIVE LStrip(_)
LStrip(s) == IF s # <<>> /\ Head(s) = " " THEN LStrip(Tail(s)) ELSE s

RECURSIVE RStripCh(_, _)
RStripCh(s, c) ==
    IF s # <<>> /\ s[Len(s)] = c THEN RStripCh(SubSeq(s, 1, Len(s) - 1), c) ELSE s

Strip(s) == RStripCh(LStrip(s), " ")

Untitled == <<"u", "n", "t", "i", "t", "l", "e", "d">>

\* src.strip().rstrip(".") or "untitled"
safe_filename(name) ==
    LET t == RStripCh(Strip(ReplaceUnsafe(name)), ".")
    IN  IF t = <<>> THEN Untitled ELSE t

\* Index of the last occurrence of c in s, 0 when there is none.
LastIndexOf(s, c) ==
    LET I == {i \in 1..Len(s) : s[i] = c}
    IN  IF I = {} THEN 0 ELSE CHOOSE i \in I : \A j \in I : j <= i

\* os.path.splitext (posixpath): the extension starts at the last dot after the
\* last "/", unless only dots lie between the start of that component and it.
splitext(p) ==
    LET sep == LastIndexOf(p, "/")
        dot == LastIndexOf(p, ".")
    IN  IF dot > sep /\ (\E k \in (sep + 1)..(dot - 1) : p[k] # ".")
        THEN <<SubSeq(p, 1, dot - 1), SubSeq(p, dot, Len(p))>>
        ELSE <<p, <<>>>>

\* s[:n]
Take(s, n) == SubSeq(s, 1, IF n < Len(s) THEN n ELSE Len(s))

\* os.path.join(a, b) for two components.
PathJoin(a, b) ==
    IF b # <<>> /\ Head(b) = "/" THEN b
    ELSE IF a = <<>> \/ a[Len(a)] = "/" THEN a \o b
    ELSE a \o <<"/">> \o b

LowerCh(c) ==
    CASE c = "A" -> "a" [] c = "J" -> "j" [] c = "P" -> "p" [] c = "G" -> "g"
      [] c = "M" -> "m" [] c = "V" -> "v" [] OTHER -> c

Lower(s) == [i \in 1..Len(s) |-> LowerCh(s[i])]

\* s.lstrip(".")
RECURSIVE LStripDots(_)
LStripDots(s) == IF s # <<>> /\ Head(s) = "." THEN LStripDots(Tail(s)) ELSE s

StartsWith(s, pre) == Len(s) >= Len(pre) /\ SubSeq(s, 1, Len(pre)) = pre

Contains(s, sub) ==
    \E i \in 1..(Len(s) - Len(sub) + 1) : SubSeq(s, i, i + Len(sub) - 1) = sub

\* ------------------------------------------------- classification, naming

\* dfr/utils.py _IMAGE_EXTS and _VIDEO_EXTS
IMAGE_EXTS ==
    {<<"j", "p", "g">>,
     <<"j", "p", "e", "g">>,
     <<"p", "n", "g">>,
     <<"g", "i", "f">>,
     <<"w", "e", "b", "p">>,
     <<"t", "i", "f">>,
     <<"t", "i", "f", "f">>,
     <<"b", "m", "p">>,
     <<"h", "e", "i", "c">>,
     <<"h", "e", "i", "f">>,
     <<"c", "r", "2">>,
     <<"c", "r", "3">>,
     <<"a", "r", "w">>,
     <<"n", "e", "f">>,
     <<"d", "n", "g">>,
     <<"r", "a", "f">>,
     <<"r", "w", "2">>}

VIDEO_EXTS ==
    {<<"m", "p", "4">>,
     <<"m", "o", "v">>,
     <<"m", "4", "v">>,
     <<"m", "k", "v">>,
     <<"a", "v", "i">>,
     <<"w", "e", "b", "m">>,
     <<"m", "t", "s">>,
     <<"m", "2", "t", "s">>,
     <<"3", "g", "p">>,
     <<"m", "o", "d">>,
     <<"t", "o", "d">>}

NoExt == <<>>

\* process_file / _scan_one compute no path for an unclassified item.
NoPath == <<>>

\* _ext_from(name, file_ext)
ext_from(name, file_ext) ==
    IF file_ext # NoExt THEN Lower(file_ext)
    ELSE Lower(LStripDots(splitext(name)[2]))

\* dfr/utils.py classify_media: "image", "video" or "none" (None).
classify_media(mime, name, file_ext) ==
    LET ext == ext_from(name, file_ext)
    IN  IF StartsWith(mime, <<"i", "m", "a", "g", "e", "/">>) \/ ext \in IMAGE_EXTS THEN "image"
        ELSE IF StartsWith(mime, <<"v", "i", "d", "e", "o", "/">>) \/ ext \in VIDEO_EXTS THEN "video"
        ELSE "none"

\* drive_fetch_resilient.py, line 340: the extensions of "data" files.
DATA_EXTS ==
    {<<"p", "d", "f">>,
     <<"d", "o", "c">>,
     <<"d", "o", "c", "x">>,
     <<"x", "l", "s">>,
     <<"x", "l", "s", "x">>,
     <<"p", "p", "t">>,
     <<"p", "p", "t", "x">>,
     <<"t", "x", "t">>,
     <<"c", "s", "v">>,
     <<"z", "i", "p">>,
     <<"r", "a", "r">>,
     <<"7", "z">>}

\* drive_fetch_resilient.py classify_media: "image", "video", "data" or
\* "none" (None).
classify_media_mono(mime, name, file_ext) ==
    LET ext == ext_from(name, file_ext)
        mime_lower == Lower(mime)
    IN  IF StartsWith(mime, <<"i", "m", "a", "g", "e", "/">>) \/ ext \in IMAGE_EXTS THEN "image"
        ELSE IF StartsWith(mime, <<"v", "i", "d", "e", "o", "/">>) \/ ext \in VIDEO_EXTS THEN "video"
        ELSE IF \/ StartsWith(mime_lower, <<"a", "p", "p", "l", "i", "c", "a", "t", "i", "o", "n", "/">>)
                \/ StartsWith(mime_lower, <<"t", "e", "x", "t", "/">>)
                \/ ext \in DATA_EXTS
        THEN "data"
        ELSE "none"

\* IMAGE_WIDTH = 400: the "_w400" of a preview's name.
WidthSuffix == <<"_", "w", "4", "0", "0">>

Sep2 == <<"_", "_">>

DotJpg == <<".", "j", "p", "g">>

DotMp4 == <<".", "m", "p", "4">>

Dot == <<".">>

\* ---------------------------------------------------------- configuration

VARIABLES
    DOWNLOAD_IMAGES_ORIGINAL,   \* set by the operator before a run
    DOWNLOAD_VIDEOS,
    before                      \* history: the local files as the run found them

\* The state of one list_folder_recursive generator and of the loop that
\* consumes it.
VARIABLES
    wstack,     \* the generator's frames, the innermost last
    wstatus,    \* "running", "yielded", "done", "raised" or "closed"
    witem,      \* the node handed to the consuming loop
    yielded,    \* history: the nodes the loop has received, in order
    listed,     \* history: the listing requests answered, <<folder, page>>
    lookups     \* history: the ids fetched one by one with get_item

walkVars == <<wstack, wstatus, witem, yielded, listed, lookups>>

\* One call of classify_media.
VARIABLES
    cin,        \* its arguments: mime, name, file_ext
    cout        \* what it returned, and which copy of the function it was

classVars == <<cin, cout>>

\* main() in conversion mode (main.py, lines 30-84).
VARIABLES
    thumbs,     \* the preview paths thumb_dir.rglob("*_w*.jpg") has still to yield
    converted   \* history: <<path, fid, target>> of every preview the loop matched

convVars == <<thumbs, converted>>

\* run_prescan's delivery of the link summaries to the preview window
\* (gui/workers.py, lines 430-472).
VARIABLES
    sent_count,     \* sent_count[0]
    prescan_done,   \* prescan_done[0]
    poller,         \* the timer thread in _poll_summaries: [pc, summaries]
    flusher,        \* the run_prescan thread: where it stands
    delivered       \* history: the summaries handed to add_prescan_folder, in order

pollVars == <<sent_count, prescan_done, poller, flusher, delivered>>

VARIABLES
    raised,     \* history: <<task, thread>> of every process_file call that raised
    replayed    \* history: the failure descriptors given to set_direct_tasks

\* The module's PAUSE flag (drive_fetch_resilient.py, line 51), which the
\* GUI's pause button toggles.
VARIABLE PAUSE

\* The GUI (gui/main_app.py, gui/workers.py).
VARIABLES
    start_btn,              \* the main window's Start button: "normal" / "disabled"
    cancel_btn,             \* the main window's Cancel button
    prescan_win,            \* self._prescan_win: [id, exists], id 0 when there is none
    prescan_start_button,   \* the Start Download button of the latest preview window
    prescan_tasks,          \* self._prescan_tasks: [gen, n], the scan they came from
    gscan,                  \* per run_prescan thread: [pc, todo, busy, full]
    worker                  \* the run_worker thread: where it stands

guiVars == <<start_btn, cancel_btn, prescan_win, prescan_start_button, prescan_tasks, gscan,
             worker>>

settings == <<DOWNLOAD_IMAGES_ORIGINAL, DOWNLOAD_VIDEOS, before, PAUSE>>

cfgVars == <<settings, walkVars, classVars, convVars, pollVars, raised, replayed, guiVars>>

\* OVERWRITE = False and ROBUST_RESUME = True: nothing in the repository sets
\* them to anything else.
OVERWRITE == FALSE

ROBUST_RESUME == TRUE

\* A listing record / task: id, name, mimeType, fileExtension, __rel_path,
\* __root_name (the label of its counters), __folder_out.
Node(id, name, mime, fext, rel, root, out) ==
    [id |-> id, name |-> name, mimeType |-> mime, fileExtension |-> fext,
     rel_path |-> rel, root_name |-> root, folder_out |-> out]

\* The name of the file an item of the given kind is written to:
\* <base>__<id>[_w<width>]<ext>.
ImageFileName(name, fid, fext, original) ==
    LET base == splitext(name)[1]
        ext  == splitext(name)[2]
    IN  IF original
        THEN base \o Sep2 \o fid \o
             (IF ext # <<>> THEN ext
              ELSE IF fext # NoExt THEN Dot \o fext ELSE DotJpg)
        ELSE base \o Sep2 \o fid \o WidthSuffix \o DotJpg

VideoFileName(name, fid) ==
    LET base == splitext(name)[1]
        ext  == splitext(name)[2]
    IN  base \o Sep2 \o fid \o (IF ext # <<>> THEN ext ELSE DotMp4)

\* process_file, lines 17-32 and 67-70: the kind and the path it writes.
ProcessKind(f) == classify_media(f.mimeType, safe_filename(f.name), f.fileExtension)

\* lines 22-23: out_subdir
OutSubdir(f) == IF f.rel_path # <<>> THEN PathJoin(f.folder_out, f.rel_path) ELSE f.folder_out

ProcessTarget(f) ==
    LET name       == safe_filename(f.name)
        out_subdir == OutSubdir(f)
    IN  CASE ProcessKind(f) = "image" ->
               PathJoin(out_subdir,
                        ImageFileName(name, f.id, f.fileExtension, DOWNLOAD_IMAGES_ORIGINAL))
          [] ProcessKind(f) = "video" ->
               PathJoin(out_subdir, VideoFileName(name, f.id))
          [] OTHER -> NoPath

\* prescan's _scan_one, lines 49-66 and 119-124: the kind and the path whose
\* existence it tests.
PlannerKind(f) == classify_media(f.mimeType, f.name, f.fileExtension)

PlannerTarget(f) ==
    LET target_dir == PathJoin(f.folder_out, f.rel_path)
    IN  CASE PlannerKind(f) = "image" ->
               PathJoin(target_dir,
                        ImageFileName(f.name, f.id, f.fileExtension, DOWNLOAD_IMAGES_ORIGINAL))
          [] PlannerKind(f) = "video" ->
               PathJoin(target_dir, VideoFileName(f.name, f.id))
          [] OTHER -> NoPath

\* ------------------------------------------------------- the remote items

Id1 == <<"i", "1">>

Id2 == <<"i", "2">>

Id3 == <<"i", "3">>

\* OUTPUT_DIR, two entries of FOLDER_URLS, and the names the two root folders
\* resolve to.
OUTPUT_DIR == <<"o">>

Url1 == <<"u", "/", "1">>

Url2 == <<"u", "/", "2">>

FOLDER_URLS == <<Url1, Url2>>

RootR == <<"r">>

RootS == <<"s">>

\* prescan's _scan_one, lines 32-35: url_label = safe_filename(url)[:160],
\* base_out = OUTPUT_DIR/url_label, folder_out = base_out/root_name.
FolderOut(url, root_name) ==
    PathJoin(PathJoin(OUTPUT_DIR, Take(safe_filename(url), LabelMax)), root_name)

OutR == FolderOut(Url1, RootR)

MimeJpeg == <<"i", "m", "a", "g", "e", "/", "j", "p", "e", "g">>

MimeMp4 == <<"v", "i", "d", "e", "o", "/", "m", "p", "4">>

NoMime == <<>>

\* Two tasks of the engine's runs: an image and a video of root "r".
ImageTask == Node(Id1, <<"a", ".", "j", "p", "g">>, MimeJpeg, <<"j", "p", "g">>, <<>>, RootR, OutR)

VideoTask == Node(Id2, <<"v", ".", "m", "p", "4">>, MimeMp4, <<"m", "p", "4">>, <<>>, RootR, OutR)


\* ------------------------------------------------------------------- state

\* The pool's worker threads, and the thread that runs main().
Workers == {"w1", "w2"}

Threads == Workers \cup {"main"}

\* total_size = None
NoSize == -1

\* The content every remote file has, and the part of it from offset `start`.
RemoteLen(id) == IF id = Id2 THEN RemoteSize ELSE ImageSize

RemoteContent(id) == [i \in 1..RemoteLen(id) |-> i]

ContentFrom(id, start) == SubSeq(RemoteContent(id), start + 1, RemoteLen(id))

\* A path with no file: os.path.exists is False.
NoFile == <<-1>>

VARIABLES
    fs,             \* local file system: path -> content, or NoFile
    INCOMPLETE_TARGETS,
    INTERRUPTED,
    bytes_written,  \* TOTALS.grand.bytes_written
    pc,             \* per thread: where it stands
    target,         \* per thread: the path its transfer writes
    total_size,     \* per thread: local of download_file_resumable
    downloaded,     \* per thread: local of download_file_resumable
    mode,           \* per thread: "wb" or "ab"
    headers,        \* per thread: start of the Range header, 0 for none
    attempt,        \* per thread: the retry loop's counter
    retries,        \* per thread: download_thumbnail's argument
    impl,           \* per thread: "pkg" (dfr/downloads.py) or "mono"
    body,           \* per thread: the chunks the open response still holds
    fpos,           \* per thread: offset of the open "wb" file handle
    ret,            \* per thread: what the download call returned
    tmp,            \* per thread: value read for a read-modify-write
    faultsLeft,     \* requests the environment may still let fail
    breaksLeft,     \* responses it may still break in mid-stream
    stallsLeft,     \* responses it may still end early
    startLen,       \* history: length of the local file when the call began
    written,        \* history: chunks written to files by all transfers
    results,        \* history: <<path, value, thread>> of every download call that returned
    firstRange,     \* history: Range start of the call's first content request
    requests,       \* history: requests the call has issued
    failed          \* history: attempts of the call that ended in a transient error

engineVars == <<fs, INCOMPLETE_TARGETS, INTERRUPTED, bytes_written, pc, target,
                total_size, downloaded, mode, headers, attempt, retries, impl,
                body, fpos, ret, tmp, faultsLeft, breaksLeft, stallsLeft, startLen, written,
                results, firstRange, requests, failed>>

VARIABLES
    TOTALS,         \* [grand, per_folder]: the run's Counters
    FAILED_ITEMS,   \* descriptors of the tasks that failed
    LOCK,           \* _LOCK: "free" or the thread holding it
    op,             \* per thread: the counter its critical section increments
    ctmp,           \* per thread: the counter values read inside the section
    pfret           \* per thread: what process_file returns

counterVars == <<TOTALS, FAILED_ITEMS, LOCK, op, ctmp, pfret>>

VARIABLES
    mpc,            \* where main() stands
    image_tasks,    \* image tasks not yet taken by a pool worker
    video_tasks,    \* video tasks not yet processed
    task            \* per thread: the task it processes

mainVars == <<mpc, image_tasks, video_tasks, task>>

VARIABLES
    remote,                 \* the remote store: url -> the leaves its walk yields
    EXPECTED_IMAGES,
    EXPECTED_VIDEOS,
    ALREADY_HAVE_IMAGES,
    ALREADY_HAVE_VIDEOS,
    EXPECTED_TOTAL_BYTES,
    LINK_SUMMARIES,
    ppc,                    \* where prescan_tasks stands
    urls,                   \* submitted root scans no worker has begun
    scan,                   \* per scan worker: the locals of _scan_one
    tasks_all,              \* the task list prescan_tasks builds
    plans,                  \* history: what each finished pre-scan left
    planned,                \* history: every target a scan computed
    fetched,                \* history: the tasks downloaded since
    same                    \* history: nothing changed or failed since the first pre-scan

planVars == <<remote, EXPECTED_IMAGES, EXPECTED_VIDEOS, ALREADY_HAVE_IMAGES,
              ALREADY_HAVE_VIDEOS, EXPECTED_TOTAL_BYTES, LINK_SUMMARIES, ppc, urls, scan,
              tasks_all, plans, planned, fetched, same>>

notEngine == <<cfgVars, counterVars, mainVars, planVars>>

vars == <<cfgVars, engineVars, counterVars, mainVars, planVars>>

\* The engine's variables but pc and target.
engineRest == <<fs, INCOMPLETE_TARGETS, INTERRUPTED, bytes_written, total_size, downloaded,
                mode, headers, attempt, retries, impl, body, fpos, ret, tmp, faultsLeft,
                breaksLeft, stallsLeft, startLen, written, results, firstRange, requests,
                failed>>

Exists(p) == p \in DOMAIN fs /\ fs[p] # NoFile

GetSize(p) == Len(fs[p])

\* f.write(chunk) on a handle opened "ab" (always at the end) or "wb" (at the
\* handle's own offset; a gap reads as zeros).
WriteAt(content, pos, c) ==
    LET n == IF pos + 1 > Len(content) THEN pos + 1 ELSE Len(content)
    IN  [i \in 1..n |-> IF i = pos + 1 THEN c
                        ELSE IF i <= Len(content) THEN content[i] ELSE 0]

Set(f, w, v) == [f EXCEPT ![w] = v]

\* _mark_incomplete / _mark_complete: add / discard under _LOCK.
MarkIncomplete(t) == LOCK = "free" /\ INCOMPLETE_TARGETS' = INCOMPLETE_TARGETS \cup {t}

MarkComplete(t) == LOCK = "free" /\ INCOMPLETE_TARGETS' = INCOMPLETE_TARGETS \ {t}

\* return <v> from the download call.
Return(w, v) ==
    /\ pc' = Set(pc, w, "returned")
    /\ ret' = Set(ret, w, v)
    /\ results' = results \cup {<<target[w], v, w>>}

\* ------------------------------------------- download_file_resumable (dfr)

\* _mark_incomplete(target); ensure_dir; session, url.
DF_Start(w) ==
    /\ pc[w] = "df_start"
    /\ MarkIncomplete(target[w])
    /\ pc' = Set(pc, w, "df_meta")
    /\ UNCHANGED <<notEngine, startLen, fs, INTERRUPTED, bytes_written, target, total_size, downloaded,
                   mode, headers, attempt, retries, impl, body, fpos, ret, results, tmp,
                   faultsLeft, breaksLeft, stallsLeft, written, firstRange, requests, failed>>

\* meta = get_item(service, file_id, "size, name"): the size, or none when the
\* lookup fails or the record carries no size.
DF_Meta(w) ==
    /\ pc[w] = "df_meta"
    /\ \E sz \in {RemoteLen(task[w].id), NoSize} : total_size' = Set(total_size, w, sz)
    /\ pc' = Set(pc, w, "df_stat")
    /\ UNCHANGED <<notEngine, startLen, fs, INCOMPLETE_TARGETS, INTERRUPTED, bytes_written, target,
                   downloaded, mode, headers, attempt, retries, impl, body, fpos,
                   ret, results, tmp, faultsLeft, breaksLeft, stallsLeft, written, firstRange, requests, failed>>

\* downloaded = getsize(target) if exists(target) else 0; mode; the
\* "already complete" test.
DF_Stat(w) ==
    LET d == IF Exists(target[w]) THEN GetSize(target[w]) ELSE 0
    IN  /\ pc[w] = "df_stat"
        /\ downloaded' = Set(downloaded, w, d)
        /\ mode' = Set(mode, w, IF d > 0 THEN "ab" ELSE "wb")
        /\ pc' = Set(pc, w, IF total_size[w] # NoSize /\ d >= total_size[w]
                            THEN "df_already" ELSE "df_top")
        /\ UNCHANGED <<notEngine, startLen, fs, INCOMPLETE_TARGETS, INTERRUPTED, bytes_written, target,
                       total_size, headers, attempt, retries, impl, body, fpos,
                       ret, results, tmp, faultsLeft, breaksLeft, stallsLeft, written, firstRange, requests, failed>>

\* _mark_complete(target); return True  (lines 93-97)
DF_Already(w) ==
    /\ pc[w] = "df_already"
    /\ MarkComplete(target[w])
    /\ Return(w, "True")
    /\ UNCHANGED <<notEngine, startLen, fs, INTERRUPTED, bytes_written, target, total_size, downloaded,
                   mode, headers, attempt, retries, impl, body, fpos, tmp,
                   faultsLeft, breaksLeft, stallsLeft, written, firstRange, requests, failed>>

\* while True: if INTERRUPTED: return False; headers = Range from downloaded;
\* for attempt in range(1, 9)
DF_Top(w) ==
    /\ pc[w] = "df_top"
    /\ IF INTERRUPTED
       THEN /\ Return(w, "False")
            /\ UNCHANGED <<headers, attempt>>
       ELSE /\ headers' = Set(headers, w, downloaded[w])
            /\ attempt' = Set(attempt, w, 1)
            /\ pc' = Set(pc, w, "df_req")
            /\ UNCHANGED <<ret, results>>
    /\ UNCHANGED <<notEngine, startLen, fs, INCOMPLETE_TARGETS, INTERRUPTED, bytes_written, target,
                   total_size, downloaded, mode, body, fpos, retries, impl, tmp,
                   faultsLeft, breaksLeft, stallsLeft, written, firstRange, requests, failed>>

\* except Exception: if attempt == 8: return False; else backoff, mode = "ab",
\* next attempt (the headers stay those computed before the for loop).
DF_Except(w) ==
    /\ failed' = Set(failed, w, failed[w] + 1)
    /\ IF attempt[w] = ChunkRetries
       THEN /\ Return(w, "False")
            /\ UNCHANGED <<attempt, mode>>
       ELSE /\ attempt' = Set(attempt, w, attempt[w] + 1)
            /\ mode' = Set(mode, w, "ab")
            /\ pc' = Set(pc, w, "df_req")
            /\ UNCHANGED <<ret, results>>

\* One more content request has been issued with the current headers.
Issued(w) ==
    /\ requests' = Set(requests, w, requests[w] + 1)
    /\ firstRange' = Set(firstRange, w,
                         IF requests[w] = 0 THEN headers[w] ELSE firstRange[w])

\* session.get raises, or answers with an error status that raise_for_status
\* turns into an exception: a transient failure before any chunk.
DF_RequestFails(w) ==
    /\ pc[w] = "df_req"
    /\ faultsLeft > 0
    /\ faultsLeft' = faultsLeft - 1
    /\ Issued(w)
    /\ DF_Except(w)
    /\ UNCHANGED <<notEngine, startLen, fs, INCOMPLETE_TARGETS, INTERRUPTED, bytes_written, target,
                   total_size, downloaded, headers, retries, impl, body, fpos,
                   tmp, breaksLeft, stallsLeft, written>>

\* The server answers the request.  A range that starts at or past the end of
\* the resource gets 416; otherwise 200/206 with the content from that offset,
\* and the file is opened in the current mode.
DF_Response(w) ==
    /\ pc[w] = "df_req"
    /\ Issued(w)
    /\ IF headers[w] >= RemoteLen(task[w].id)
       THEN \* status 416
            /\ IF total_size[w] # NoSize /\ total_size[w] # 0 /\ Exists(target[w])
                  /\ GetSize(target[w]) >= total_size[w]
               THEN Return(w, "True") /\ UNCHANGED <<attempt, mode, failed>>
               ELSE DF_Except(w)
            /\ UNCHANGED <<fs, body, fpos>>
       ELSE /\ fs' = [fs EXCEPT ![target[w]] =
                        IF mode[w] = "wb" \/ ~Exists(target[w]) THEN <<>> ELSE @]
            /\ fpos' = Set(fpos, w, 0)
            /\ body' = Set(body, w, ContentFrom(task[w].id, headers[w]))
            /\ pc' = Set(pc, w, "df_stream")
            /\ UNCHANGED <<ret, results, attempt, mode, failed>>
    /\ UNCHANGED <<notEngine, startLen, INCOMPLETE_TARGETS, INTERRUPTED, bytes_written, target,
                   total_size, downloaded, headers, retries, impl, tmp, faultsLeft,
                   breaksLeft, stallsLeft, written>>

\* for chunk in r.iter_content(...): if INTERRUPTED: return False; else
\* f.write(chunk); downloaded += len(chunk); and the read half of
\* TOTALS.grand.bytes_written += len(chunk).
DF_NextChunk(w) ==
    /\ pc[w] = "df_stream"
    /\ body[w] # <<>>
    /\ body' = Set(body, w, Tail(body[w]))
    /\ IF INTERRUPTED
       THEN /\ Return(w, "False")
            /\ UNCHANGED <<fs, fpos, downloaded, tmp, written>>
       ELSE /\ fs' = [fs EXCEPT ![target[w]] =
                        IF ~Exists(target[w]) THEN <<Head(body[w])>>
                        ELSE IF mode[w] = "ab" THEN Append(@, Head(body[w]))
                        ELSE WriteAt(@, fpos[w], Head(body[w]))]
            /\ fpos' = Set(fpos, w, fpos[w] + 1)
            /\ downloaded' = Set(downloaded, w, downloaded[w] + 1)
            /\ tmp' = Set(tmp, w, bytes_written)
            /\ written' = written + 1
            /\ pc' = Set(pc, w, "df_bytes")
            /\ UNCHANGED <<ret, results>>
    /\ UNCHANGED <<notEngine, startLen, INCOMPLETE_TARGETS, INTERRUPTED, bytes_written, target,
                   total_size, mode, headers, attempt, retries, impl, faultsLeft,
                   breaksLeft, stallsLeft, firstRange, requests, failed>>

\* The store half of TOTALS.grand.bytes_written += len(chunk)  (no lock held).
DF_AddBytes(w) ==
    /\ pc[w] = "df_bytes"
    /\ bytes_written' = tmp[w] + 1
    /\ pc' = Set(pc, w, "df_stream")
    /\ UNCHANGED <<notEngine, startLen, fs, INCOMPLETE_TARGETS, INTERRUPTED, target, total_size,
                   downloaded, mode, headers, attempt, retries, impl, body, fpos,
                   ret, results, tmp, faultsLeft, breaksLeft, stallsLeft, written, firstRange, requests, failed>>

\* iter_content raises in mid-stream (connection reset, timeout).
DF_StreamRaises(w) ==
    /\ pc[w] = "df_stream"
    /\ breaksLeft > 0
    /\ breaksLeft' = breaksLeft - 1
    /\ DF_Except(w)
    /\ UNCHANGED <<notEngine, startLen, fs, INCOMPLETE_TARGETS, INTERRUPTED, bytes_written, target,
                   total_size, downloaded, headers, retries, impl, body, fpos,
                   tmp, faultsLeft, stallsLeft, written, firstRange, requests>>

\* The response body is exhausted: the for loop ends, break.
DF_StreamEnds(w) ==
    /\ pc[w] = "df_stream"
    /\ body[w] = <<>>
    /\ pc' = Set(pc, w, "df_after")
    /\ UNCHANGED <<notEngine, startLen, fs, INCOMPLETE_TARGETS, INTERRUPTED, bytes_written, target,
                   total_size, downloaded, mode, headers, attempt, retries, impl,
                   body, fpos, ret, results, tmp, faultsLeft, breaksLeft, stallsLeft, written, firstRange,
                   requests, failed>>

\* The response ends before the whole range was delivered, without raising.
DF_StreamEndsEarly(w) ==
    /\ pc[w] = "df_stream"
    /\ body[w] # <<>>
    /\ stallsLeft > 0
    /\ stallsLeft' = stallsLeft - 1
    /\ pc' = Set(pc, w, "df_after")
    /\ UNCHANGED <<notEngine, startLen, breaksLeft, fs, INCOMPLETE_TARGETS, INTERRUPTED, bytes_written, target,
                   total_size, downloaded, mode, headers, attempt, retries, impl,
                   body, fpos, ret, results, tmp, faultsLeft, written, firstRange, requests, failed>>

\* After the for loop: with the size unknown go and probe; with it known,
\* _mark_complete and return True once downloaded >= total_size, else loop.
DF_After(w) ==
    /\ pc[w] = "df_after"
    /\ IF total_size[w] = NoSize
       THEN /\ pc' = Set(pc, w, "df_probe")
            /\ UNCHANGED <<ret, results, INCOMPLETE_TARGETS>>
       ELSE IF downloaded[w] >= total_size[w]
       THEN /\ MarkComplete(target[w])
            /\ Return(w, "True")
       ELSE /\ pc' = Set(pc, w, "df_top")
            /\ UNCHANGED <<ret, results, INCOMPLETE_TARGETS>>
    /\ UNCHANGED <<notEngine, startLen, fs, INTERRUPTED, bytes_written, target, total_size, downloaded,
                   mode, headers, attempt, retries, impl, body, fpos, tmp,
                   faultsLeft, breaksLeft, stallsLeft, written, firstRange, requests, failed>>

\* The probe (Range: bytes=<downloaded>-) answers: 416 at or past the end, so
\* _mark_complete and return True; otherwise another status, and the loop
\* goes on.
DF_ProbeAnswers(w) ==
    /\ pc[w] = "df_probe"
    /\ IF downloaded[w] >= RemoteLen(task[w].id)
       THEN /\ MarkComplete(target[w])
            /\ Return(w, "True")
       ELSE /\ pc' = Set(pc, w, "df_top")
            /\ UNCHANGED <<ret, results, INCOMPLETE_TARGETS>>
    /\ UNCHANGED <<notEngine, startLen, fs, INTERRUPTED, bytes_written, target, total_size, downloaded,
                   mode, headers, attempt, retries, impl, body, fpos, tmp,
                   faultsLeft, breaksLeft, stallsLeft, written, firstRange, requests, failed>>

\* The probe raises: except Exception: return True.
DF_ProbeRaises(w) ==
    /\ pc[w] = "df_probe"
    /\ faultsLeft > 0
    /\ faultsLeft' = faultsLeft - 1
    /\ Return(w, "True")
    /\ UNCHANGED <<notEngine, startLen, fs, INCOMPLETE_TARGETS, INTERRUPTED, bytes_written, target,
                   total_size, downloaded, mode, headers, attempt, retries, impl,
                   body, fpos, tmp, breaksLeft, stallsLeft, written, firstRange, requests, failed>>

\* The probe is answered with a transient error status (no exception: the
\* probe does not call raise_for_status): not 416, so the loop goes on.
DF_ProbeErrorStatus(w) ==
    /\ pc[w] = "df_probe"
    /\ faultsLeft > 0
    /\ faultsLeft' = faultsLeft - 1
    /\ pc' = Set(pc, w, "df_top")
    /\ UNCHANGED <<notEngine, startLen, fs, INCOMPLETE_TARGETS, INTERRUPTED, bytes_written, target,
                   total_size, downloaded, mode, headers, attempt, retries, impl,
                   body, fpos, ret, results, tmp, breaksLeft, stallsLeft, written, firstRange, requests, failed>>

download_file_resumable(w) ==
    \/ DF_Start(w) \/ DF_Meta(w) \/ DF_Stat(w) \/ DF_Already(w) \/ DF_Top(w)
    \/ DF_RequestFails(w) \/ DF_Response(w) \/ DF_NextChunk(w) \/ DF_AddBytes(w)
    \/ DF_StreamRaises(w) \/ DF_StreamEnds(w) \/ DF_StreamEndsEarly(w)
    \/ DF_After(w) \/ DF_ProbeAnswers(w) \/ DF_ProbeRaises(w)
    \/ DF_ProbeErrorStatus(w)

\* on_sigint / the GUI's cancel: INTERRUPTED = True.
SetInterrupted ==
    /\ ~INTERRUPTED
    /\ INTERRUPTED' = TRUE
    /\ UNCHANGED <<notEngine, startLen, fs, INCOMPLETE_TARGETS, bytes_written, pc, target, total_size,
                   downloaded, mode, headers, attempt, retries, impl, body, fpos,
                   ret, results, tmp, faultsLeft, breaksLeft, stallsLeft, written, firstRange, requests, failed>>

\* ---------------------------------------------------- download_thumbnail

\* The attempt at which the handler gives up: `attempt == retries` in
\* dfr/downloads.py, `attempt == 10` in drive_fetch_resilient.py.
GiveUpAt(w) == IF impl[w] = "pkg" THEN retries[w] ELSE MonoThumbCeiling

\* _mark_incomplete(out_path); the loop's first iteration.
DT_Start(w) ==
    /\ pc[w] = "dt_start"
    /\ MarkIncomplete(target[w])
    /\ IF retries[w] >= 1
       THEN /\ attempt' = Set(attempt, w, 1)
            /\ pc' = Set(pc, w, "dt_req")
            /\ UNCHANGED <<ret, results>>
       ELSE /\ Return(w, "None")
            /\ UNCHANGED attempt
    /\ UNCHANGED <<notEngine, startLen, fs, INTERRUPTED, bytes_written, target, total_size,
                   downloaded, mode, headers, retries, impl, body, fpos, tmp,
                   faultsLeft, breaksLeft, stallsLeft, written, firstRange, requests, failed>>

\* except Exception: give up at the ceiling, otherwise back off and go round
\* the loop, which ends (the function returns None) after `retries` rounds.
DT_Except(w) ==
    /\ failed' = Set(failed, w, failed[w] + 1)
    /\ IF attempt[w] = GiveUpAt(w)
       THEN /\ MarkIncomplete(target[w])
            /\ Return(w, "False")
            /\ UNCHANGED attempt
       ELSE IF attempt[w] >= retries[w]
       THEN /\ Return(w, "None")
            /\ UNCHANGED <<attempt, INCOMPLETE_TARGETS>>
       ELSE /\ attempt' = Set(attempt, w, attempt[w] + 1)
            /\ pc' = Set(pc, w, "dt_req")
            /\ UNCHANGED <<ret, results, INCOMPLETE_TARGETS>>

\* requests.get raises, or answers 404 or another error status.
DT_RequestFails(w) ==
    /\ pc[w] = "dt_req"
    /\ faultsLeft > 0
    /\ faultsLeft' = faultsLeft - 1
    /\ requests' = Set(requests, w, requests[w] + 1)
    /\ DT_Except(w)
    /\ UNCHANGED <<notEngine, startLen, fs, INTERRUPTED, bytes_written, target, total_size,
                   downloaded, mode, headers, retries, impl, body, fpos, tmp,
                   breaksLeft, stallsLeft, written, firstRange>>

\* A good answer: bytes_written = 0; open(out_path, "wb").
DT_Response(w) ==
    /\ pc[w] = "dt_req"
    /\ requests' = Set(requests, w, requests[w] + 1)
    /\ fs' = [fs EXCEPT ![target[w]] = <<>>]
    /\ body' = Set(body, w, RemoteContent(task[w].id))
    /\ fpos' = Set(fpos, w, 0)
    /\ pc' = Set(pc, w, "dt_stream")
    /\ UNCHANGED <<notEngine, startLen, INCOMPLETE_TARGETS, INTERRUPTED, bytes_written, target,
                   total_size, downloaded, mode, headers, attempt, retries, impl, ret, results,
                   tmp, faultsLeft, breaksLeft, stallsLeft, written, firstRange, failed>>

\* f.write(chunk); bytes_written += len(chunk)   (the local count is fpos)
DT_NextChunk(w) ==
    /\ pc[w] = "dt_stream"
    /\ body[w] # <<>>
    /\ fs' = [fs EXCEPT ![target[w]] = WriteAt(fs[target[w]], fpos[w], Head(body[w]))]
    /\ fpos' = Set(fpos, w, fpos[w] + 1)
    /\ body' = Set(body, w, Tail(body[w]))
    /\ written' = written + 1
    /\ UNCHANGED <<notEngine, startLen, INCOMPLETE_TARGETS, INTERRUPTED, bytes_written, pc, target,
                   total_size, downloaded, mode, headers, attempt, retries, impl, ret, results,
                   tmp, faultsLeft, breaksLeft, stallsLeft, firstRange, requests, failed>>

\* iter_content raises in mid-stream.
DT_StreamRaises(w) ==
    /\ pc[w] = "dt_stream"
    /\ body[w] # <<>>
    /\ breaksLeft > 0
    /\ breaksLeft' = breaksLeft - 1
    /\ body' = Set(body, w, <<>>)
    /\ DT_Except(w)
    /\ UNCHANGED <<notEngine, startLen, fs, INTERRUPTED, bytes_written, target, total_size,
                   downloaded, mode, headers, retries, impl, fpos, tmp,
                   faultsLeft, stallsLeft, written, firstRange, requests>>

\* A loop that does not stop at a success: after a good answer it goes round
\* again while attempts are left.
DT_StreamEndsAgain(w) ==
    /\ pc[w] = "dt_stream"
    /\ body[w] = <<>>
    /\ MarkComplete(target[w])
    /\ tmp' = Set(tmp, w, bytes_written)
    /\ IF attempt[w] < retries[w]
       THEN attempt' = Set(attempt, w, attempt[w] + 1) /\ pc' = Set(pc, w, "dt_req")
       ELSE UNCHANGED attempt /\ pc' = Set(pc, w, "dt_bytes")
    /\ UNCHANGED <<notEngine, startLen, fs, INTERRUPTED, bytes_written, target, total_size,
                   downloaded, mode, headers, retries, impl, fpos, ret, results, body,
                   faultsLeft, breaksLeft, stallsLeft, written, firstRange, requests, failed>>

\* The stream ends (early, if the connection closes without an error):
\* _mark_complete(out_path), and the read of TOTALS.grand.bytes_written.
DT_StreamEnds(w) ==
    /\ pc[w] = "dt_stream"
    /\ \/ body[w] = <<>> /\ UNCHANGED stallsLeft
       \/ body[w] # <<>> /\ stallsLeft > 0 /\ stallsLeft' = stallsLeft - 1
    /\ body' = Set(body, w, <<>>)
    /\ MarkComplete(target[w])
    /\ tmp' = Set(tmp, w, bytes_written)
    /\ pc' = Set(pc, w, "dt_bytes")
    /\ UNCHANGED <<notEngine, startLen, fs, INTERRUPTED, bytes_written, target, total_size,
                   downloaded, mode, headers, attempt, retries, impl, fpos, ret, results,
                   faultsLeft, breaksLeft, written, firstRange, requests, failed>>

\* dfr.TOTALS.grand.bytes_written += bytes_written: the store; return True.
DT_AddBytes(w) ==
    /\ pc[w] = "dt_bytes"
    /\ bytes_written' = tmp[w] + fpos[w]
    /\ Return(w, "True")
    /\ UNCHANGED <<notEngine, startLen, fs, INCOMPLETE_TARGETS, INTERRUPTED, target, total_size,
                   downloaded, mode, headers, attempt, retries, impl, body, fpos, tmp,
                   faultsLeft, breaksLeft, stallsLeft, written, firstRange, requests, failed>>

download_thumbnail(w) ==
    \/ DT_Start(w)
    \/ DT_RequestFails(w)
    \/ DT_Response(w)
    \/ DT_NextChunk(w)
    \/ DT_StreamRaises(w)
    \/ DT_StreamEnds(w)
    \/ DT_AddBytes(w)

\* ------------------------------------ gapi_execute_with_retry (dfr/listing)

\* for attempt in range(1, retries + 1): ... raise RuntimeError after the loop
G_Start(w) ==
    /\ pc[w] = "g_start"
    /\ IF retries[w] >= 1
       THEN /\ attempt' = Set(attempt, w, 1)
            /\ pc' = Set(pc, w, "g_req")
            /\ UNCHANGED <<ret, results>>
       ELSE /\ Return(w, "RuntimeError")
            /\ UNCHANGED attempt
    /\ UNCHANGED <<notEngine, startLen, fs, INCOMPLETE_TARGETS, INTERRUPTED, bytes_written,
                   target, total_size, downloaded, mode, headers, retries, impl, body, fpos,
                   tmp, faultsLeft, breaksLeft, stallsLeft, written, firstRange, requests, failed>>

\* return req.execute()
G_Answer(w) ==
    /\ pc[w] = "g_req"
    /\ requests' = Set(requests, w, requests[w] + 1)
    /\ Return(w, "Response")
    /\ UNCHANGED <<notEngine, startLen, fs, INCOMPLETE_TARGETS, INTERRUPTED, bytes_written,
                   target, total_size, downloaded, mode, headers, attempt, retries, impl, body,
                   fpos, tmp, faultsLeft, breaksLeft, stallsLeft, written, firstRange, failed>>

\* HttpError with status 429/500/502/503/504, or another Exception:
\* backoff_sleep(attempt) and the next round; after the last one RuntimeError.
G_Transient(w) ==
    /\ pc[w] = "g_req"
    /\ faultsLeft > 0
    /\ faultsLeft' = faultsLeft - 1
    /\ requests' = Set(requests, w, requests[w] + 1)
    /\ failed' = Set(failed, w, failed[w] + 1)
    /\ IF attempt[w] < retries[w]
       THEN /\ attempt' = Set(attempt, w, attempt[w] + 1)
            /\ UNCHANGED <<pc, ret, results>>
       ELSE /\ Return(w, "RuntimeError")
            /\ UNCHANGED attempt
    /\ UNCHANGED <<notEngine, startLen, fs, INCOMPLETE_TARGETS, INTERRUPTED, bytes_written,
                   target, total_size, downloaded, mode, headers, retries, impl, body, fpos,
                   tmp, breaksLeft, stallsLeft, written, firstRange>>

\* HttpError with any other status: raise
G_Fatal(w) ==
    /\ pc[w] = "g_req"
    /\ requests' = Set(requests, w, requests[w] + 1)
    /\ Return(w, "HttpError")
    /\ UNCHANGED <<notEngine, startLen, fs, INCOMPLETE_TARGETS, INTERRUPTED, bytes_written,
                   target, total_size, downloaded, mode, headers, attempt, retries, impl, body,
                   fpos, tmp, faultsLeft, breaksLeft, stallsLeft, written, firstRange, failed>>

gapi_execute_with_retry(w) ==
    \/ G_Start(w)
    \/ G_Answer(w)
    \/ G_Transient(w)
    \/ G_Fatal(w)

\* ------------------------------------------------------------ process_file

\* Counters (the data_* fields are never touched by dfr/process.py, whose
\* classify_media has no "data" kind; bytes_written is the variable above).
ZeroCounters ==
    [scanned |-> 0, images_done |-> 0, images_skipped |-> 0, images_failed |-> 0,
     videos_done |-> 0, videos_skipped |-> 0, videos_failed |-> 0]

\* Totals(): grand = Counters(), per_folder = {}
NewTotals == [grand |-> ZeroCounters, per_folder |-> <<>>]

\* Totals.folder(key): the folder's Counters, created on first use.
Folder(T, key) ==
    IF key \in DOMAIN T.per_folder THEN T
    ELSE [T EXCEPT !.per_folder = (key :> ZeroCounters) @@ T.per_folder]

NoTask == [id |-> <<>>]

IdleEngine(w) ==
    /\ total_size' = Set(total_size, w, NoSize)
    /\ downloaded' = Set(downloaded, w, 0)
    /\ mode' = Set(mode, w, "wb")
    /\ headers' = Set(headers, w, 0)
    /\ attempt' = Set(attempt, w, 0)
    /\ body' = Set(body, w, <<>>)
    /\ fpos' = Set(fpos, w, 0)
    /\ ret' = Set(ret, w, "running")
    /\ tmp' = Set(tmp, w, 0)
    /\ firstRange' = Set(firstRange, w, 0)
    /\ requests' = Set(requests, w, 0)
    /\ failed' = Set(failed, w, 0)

\* process_file goes on at `next`; when that is its return ("idle") its
\* locals are gone.
GoOn(w, next) ==
    /\ pc' = Set(pc, w, next)
    /\ task' = Set(task, w, IF next = "idle" THEN NoTask ELSE task[w])
    /\ target' = Set(target, w, IF next = "idle" THEN NoPath ELSE target[w])

\* Entering the section without waiting for the mutex.
PF_AcquireNoLock(w) ==
    /\ pc[w] = "pf_lock"
    /\ LOCK' = w
    /\ pc' = Set(pc, w, "pf_read")
    /\ UNCHANGED <<cfgVars, planVars, mainVars, TOTALS, FAILED_ITEMS, op, ctmp, pfret>>
    /\ UNCHANGED <<fs, INCOMPLETE_TARGETS, INTERRUPTED, bytes_written, target, total_size,
                   downloaded, mode, headers, attempt, retries, impl, body, fpos, ret, tmp,
                   faultsLeft, breaksLeft, stallsLeft, startLen, written, results, firstRange,
                   requests, failed>>

\* with dfr._LOCK:  (entering the section that increments counter op[w])
PF_Acquire(w) ==
    /\ pc[w] = "pf_lock"
    /\ LOCK = "free"
    /\ LOCK' = w
    /\ pc' = Set(pc, w, "pf_read")
    /\ UNCHANGED <<cfgVars, planVars, mainVars, TOTALS, FAILED_ITEMS, op, ctmp, pfret>>
    /\ UNCHANGED <<fs, INCOMPLETE_TARGETS, INTERRUPTED, bytes_written, target, total_size,
                   downloaded, mode, headers, attempt, retries, impl, body, fpos, ret, tmp,
                   faultsLeft, breaksLeft, stallsLeft, startLen, written, results, firstRange,
                   requests, failed>>

\* The loads of `grand.<op> += 1; folder_ctrs.<op> += 1`.
PF_Read(w) ==
    /\ pc[w] = "pf_read"
    /\ LET T == Folder(TOTALS, task[w].root_name)
       IN  /\ TOTALS' = T
           /\ ctmp' = Set(ctmp, w, <<T.grand[op[w]], T.per_folder[task[w].root_name][op[w]]>>)
    /\ pc' = Set(pc, w, "pf_write")
    /\ UNCHANGED <<cfgVars, planVars, mainVars, FAILED_ITEMS, LOCK, op, pfret>>
    /\ UNCHANGED <<fs, INCOMPLETE_TARGETS, INTERRUPTED, bytes_written, target, total_size,
                   downloaded, mode, headers, attempt, retries, impl, body, fpos, ret, tmp,
                   faultsLeft, breaksLeft, stallsLeft, startLen, written, results, firstRange,
                   requests, failed>>

\* Where process_file goes on after the section that incremented counter c.
AfterSection(c) ==
    IF c = "scanned" THEN "pf_classify"
    ELSE IF c \in {"images_failed", "videos_failed"} THEN "pf_faillist"
    ELSE "idle"

\* A process_file that adds to the grand counter only.
PF_WriteGrand(w) ==
    /\ pc[w] = "pf_write"
    /\ TOTALS' = [TOTALS EXCEPT !.grand[op[w]] = ctmp[w][1] + 1]
    /\ LOCK' = "free"
    /\ GoOn(w, AfterSection(op[w]))
    /\ UNCHANGED <<cfgVars, planVars, mpc, image_tasks, video_tasks, FAILED_ITEMS, op, ctmp, pfret>>
    /\ UNCHANGED <<fs, INCOMPLETE_TARGETS, INTERRUPTED, bytes_written, total_size,
                   downloaded, mode, headers, attempt, retries, impl, body, fpos, ret, tmp,
                   faultsLeft, breaksLeft, stallsLeft, startLen, written, results, firstRange,
                   requests, failed>>

\* The stores of the two increments, and the end of the with block.
PF_Write(w) ==
    /\ pc[w] = "pf_write"
    /\ TOTALS' = [TOTALS EXCEPT !.grand[op[w]] = ctmp[w][1] + 1,
                                !.per_folder[task[w].root_name][op[w]] = ctmp[w][2] + 1]
    /\ LOCK' = "free"
    /\ GoOn(w, AfterSection(op[w]))
    /\ UNCHANGED <<cfgVars, planVars, mpc, image_tasks, video_tasks, FAILED_ITEMS, op, ctmp, pfret>>
    /\ UNCHANGED <<fs, INCOMPLETE_TARGETS, INTERRUPTED, bytes_written, total_size,
                   downloaded, mode, headers, attempt, retries, impl, body, fpos, ret, tmp,
                   faultsLeft, breaksLeft, stallsLeft, startLen, written, results, firstRange,
                   requests, failed>>

\* Lines 17-49 and 66-82: name, kind, target; the exists test; the call of
\* the download function.
PF_Classify(w) ==
    /\ pc[w] = "pf_classify"
    /\ LET f    == task[w]
           kind == ProcessKind(f)
           t    == ProcessTarget(f)
       IN  IF kind = "none"
           THEN /\ pfret' = Set(pfret, w, FALSE)
                /\ GoOn(w, "idle")
                /\ UNCHANGED <<op, total_size, downloaded, mode, headers, attempt, body,
                               fpos, ret, tmp, firstRange, requests, failed, startLen>>
           ELSE IF ~OVERWRITE /\ Exists(t)
           THEN /\ op' = Set(op, w, IF kind = "image" THEN "images_skipped" ELSE "videos_skipped")
                /\ pfret' = Set(pfret, w, TRUE)
                /\ pc' = Set(pc, w, "pf_lock")
                /\ UNCHANGED <<task, target, total_size, downloaded, mode, headers, attempt, body,
                               fpos, ret, tmp, firstRange, requests, failed, startLen>>
           ELSE IF kind = "video" /\ ~DOWNLOAD_VIDEOS
           THEN /\ op' = Set(op, w, "videos_skipped")
                /\ pfret' = Set(pfret, w, FALSE)
                /\ pc' = Set(pc, w, "pf_lock")
                /\ UNCHANGED <<task, target, total_size, downloaded, mode, headers, attempt, body,
                               fpos, ret, tmp, firstRange, requests, failed, startLen>>
           ELSE /\ target' = Set(target, w, t)
                /\ startLen' = Set(startLen, w, 0)
                /\ IdleEngine(w)
                /\ pc' = Set(pc, w, IF kind = "image" /\ ~DOWNLOAD_IMAGES_ORIGINAL
                                    THEN "dt_start" ELSE "df_start")
                /\ UNCHANGED <<op, pfret, task>>
    /\ UNCHANGED <<cfgVars, planVars, mpc, image_tasks, video_tasks, TOTALS, FAILED_ITEMS, LOCK, ctmp>>
    /\ UNCHANGED <<fs, INCOMPLETE_TARGETS, INTERRUPTED, bytes_written, retries, impl,
                   faultsLeft, breaksLeft, stallsLeft, written, results>>

\* if ok: ... <kind>_done += 1; return True   else: ... <kind>_failed += 1
\* (the download call's frame is gone)
PF_Result(w) ==
    /\ pc[w] = "returned"
    /\ task[w] # NoTask
    /\ LET k == IF ProcessKind(task[w]) = "image" THEN "images" ELSE "videos"
       IN  IF ret[w] = "True"
           THEN op' = Set(op, w, k \o "_done") /\ pfret' = Set(pfret, w, TRUE)
           ELSE op' = Set(op, w, k \o "_failed") /\ pfret' = Set(pfret, w, FALSE)
    /\ pc' = Set(pc, w, "pf_lock")
    /\ IdleEngine(w)
    /\ UNCHANGED <<cfgVars, planVars, mainVars, TOTALS, FAILED_ITEMS, LOCK, ctmp>>
    /\ UNCHANGED <<fs, INCOMPLETE_TARGETS, INTERRUPTED, bytes_written, target, retries, impl,
                   faultsLeft, breaksLeft, stallsLeft, startLen, written, results>>

\* A process_file that returns False without recording the failure.
PF_FailListLost(w) ==
    /\ pc[w] = "pf_faillist"
    /\ LOCK = "free"
    /\ GoOn(w, "idle")
    /\ UNCHANGED <<cfgVars, planVars, mpc, image_tasks, video_tasks, TOTALS, FAILED_ITEMS, LOCK,
                   op, ctmp, pfret, engineRest>>

\* with dfr._LOCK: dfr.FAILED_ITEMS.append({...}); return False
PF_FailList(w) ==
    /\ pc[w] = "pf_faillist"
    /\ LOCK = "free"
    /\ FAILED_ITEMS' = Append(FAILED_ITEMS,
                              [id |-> task[w].id, name |-> safe_filename(task[w].name),
                               kind |-> ProcessKind(task[w]),
                               root_name |-> task[w].root_name,
                               folder_out |-> OutSubdir(task[w]), target |-> target[w]])
    /\ GoOn(w, "idle")
    /\ UNCHANGED <<cfgVars, planVars, mpc, image_tasks, video_tasks, TOTALS, LOCK, op, ctmp, pfret>>
    /\ UNCHANGED <<fs, INCOMPLETE_TARGETS, INTERRUPTED, bytes_written, total_size,
                   downloaded, mode, headers, attempt, retries, impl, body, fpos, ret, tmp,
                   faultsLeft, breaksLeft, stallsLeft, startLen, written, results, firstRange,
                   requests, failed>>

\* ensure_dir(out_subdir) (line 24) raises, an OSError for instance, after
\* the scanned counters were incremented: process_file is left, and the
\* `except Exception` of _proc_image (main.py, lines 161-163) or of the video
\* loop (lines 183-184) logs "Worker error" and goes on.
PF_Raises(w) ==
    /\ pc[w] = "pf_classify"
    /\ raised' = raised \cup {<<task[w], w>>}
    /\ pfret' = Set(pfret, w, FALSE)
    /\ GoOn(w, "idle")
    /\ UNCHANGED <<settings, walkVars, classVars, convVars, pollVars, guiVars, replayed, planVars, mpc, image_tasks,
                   video_tasks, TOTALS, FAILED_ITEMS, LOCK, op, ctmp, engineRest>>

process_file(w) ==
    \/ PF_Acquire(w)
    \/ PF_Read(w)
    \/ PF_Write(w)
    \/ PF_Classify(w)
    \/ PF_Result(w)
    \/ PF_FailList(w)

\* -------------------------------------------------------- main (dfr/main)

\* cleanup_incomplete_targets: every recorded path that exists is removed,
\* and the record is cleared.
Cleaned == [p \in DOMAIN fs |-> IF p \in INCOMPLETE_TARGETS THEN NoFile ELSE fs[p]]

\* A pool worker takes the next submitted image task: _proc_image returns at
\* once when INTERRUPTED, otherwise it enters process_file.
Pool_Take(w) ==
    /\ mpc = "images"
    /\ pc[w] = "idle"
    /\ image_tasks # <<>>
    /\ image_tasks' = Tail(image_tasks)
    /\ IF INTERRUPTED
       THEN UNCHANGED <<pc, op, task>>
       ELSE /\ task' = Set(task, w, Head(image_tasks))
            /\ op' = Set(op, w, "scanned")
            /\ pc' = Set(pc, w, "pf_lock")
    /\ UNCHANGED <<cfgVars, planVars, mpc, video_tasks, TOTALS, FAILED_ITEMS, LOCK, ctmp, pfret>>
    /\ UNCHANGED <<fs, INCOMPLETE_TARGETS, INTERRUPTED, bytes_written, target, total_size,
                   downloaded, mode, headers, attempt, retries, impl, body, fpos, ret, tmp,
                   faultsLeft, breaksLeft, stallsLeft, startLen, written, results, firstRange,
                   requests, failed>>

\* The with ThreadPoolExecutor block ends: every future has completed.
M_PoolDone ==
    /\ mpc = "images"
    /\ image_tasks = <<>>
    /\ \A w \in Workers : pc[w] = "idle"
    /\ mpc' = "videos"
    /\ UNCHANGED <<cfgVars, planVars, image_tasks, video_tasks, task, counterVars, engineVars>>

\* A video loop that hands each video to a pool worker and goes on to the next
\* one without waiting for the call to return.
M_VideoLoopSubmit ==
    /\ mpc = "videos"
    /\ IF video_tasks = <<>> \/ INTERRUPTED
       THEN /\ \A w \in Threads : pc[w] = "idle"
            /\ mpc' = "cleanup"
            /\ UNCHANGED <<video_tasks, pc, op, task>>
       ELSE /\ \E w \in Workers :
                 /\ pc[w] = "idle"
                 /\ task' = Set(task, w, Head(video_tasks))
                 /\ op' = Set(op, w, "scanned")
                 /\ pc' = Set(pc, w, "pf_lock")
            /\ video_tasks' = Tail(video_tasks)
            /\ UNCHANGED mpc
    /\ UNCHANGED <<cfgVars, planVars, image_tasks, TOTALS, FAILED_ITEMS, LOCK, ctmp, pfret>>
    /\ UNCHANGED <<fs, INCOMPLETE_TARGETS, INTERRUPTED, bytes_written, target, total_size,
                   downloaded, mode, headers, attempt, retries, impl, body, fpos, ret, tmp,
                   faultsLeft, breaksLeft, stallsLeft, startLen, written, results, firstRange,
                   requests, failed>>

\* for f in video_tasks: if INTERRUPTED: break; process_file(...)
M_VideoLoop ==
    /\ mpc = "videos"
    /\ pc["main"] = "idle"
    /\ IF video_tasks = <<>> \/ INTERRUPTED
       THEN /\ mpc' = "cleanup"
            /\ UNCHANGED <<video_tasks, pc, op, task>>
       ELSE /\ video_tasks' = Tail(video_tasks)
            /\ task' = Set(task, "main", Head(video_tasks))
            /\ op' = Set(op, "main", "scanned")
            /\ pc' = Set(pc, "main", "pf_lock")
            /\ UNCHANGED mpc
    /\ UNCHANGED <<cfgVars, planVars, image_tasks, TOTALS, FAILED_ITEMS, LOCK, ctmp, pfret>>
    /\ UNCHANGED <<fs, INCOMPLETE_TARGETS, INTERRUPTED, bytes_written, target, total_size,
                   downloaded, mode, headers, attempt, retries, impl, body, fpos, ret, tmp,
                   faultsLeft, breaksLeft, stallsLeft, startLen, written, results, firstRange,
                   requests, failed>>

\* cleanup_incomplete_targets(); the summaries; DIRECT_TASKS = None.
M_Cleanup ==
    /\ mpc = "cleanup"
    /\ LOCK = "free"
    /\ fs' = Cleaned
    /\ INCOMPLETE_TARGETS' = {}
    /\ mpc' = "done"
    /\ UNCHANGED <<cfgVars, planVars, image_tasks, video_tasks, task, counterVars>>
    /\ UNCHANGED <<INTERRUPTED, bytes_written, pc, target, total_size,
                   downloaded, mode, headers, attempt, retries, impl, body, fpos, ret, tmp,
                   faultsLeft, breaksLeft, stallsLeft, startLen, written, results, firstRange,
                   requests, failed>>

\* What main() and process_file read in a failure descriptor that is given
\* back as a task: it has no mimeType, fileExtension or __rel_path, so these
\* are "", None and "" (main.py, line 125; process.py, lines 18-22).
DirectTask(d) == Node(d.id, d.name, NoMime, NoExt, <<>>, d.root_name, d.folder_out)

\* main.py, lines 121-129: videos, and everything else.
IsVideoTask(f) == classify_media(f.mimeType, f.name, f.fileExtension) = "video"

NotVideoTask(f) == ~IsVideoTask(f)

\* set_direct_tasks(get_failed_items()) and main() once more, in the same
\* process and against a server that now answers: the descriptors are the
\* tasks (lines 109-110), no pre-scan runs, and they are partitioned.  main()
\* begins with TOTALS = Totals() (line 24).
M_Replay ==
    /\ mpc = "done"
    /\ replayed = <<>>
    /\ FAILED_ITEMS # <<>>
    /\ replayed' = FAILED_ITEMS
    /\ LET tasks == [i \in DOMAIN FAILED_ITEMS |-> DirectTask(FAILED_ITEMS[i])]
       IN  /\ image_tasks' = SelectSeq(tasks, NotVideoTask)
           /\ video_tasks' = SelectSeq(tasks, IsVideoTask)
    /\ mpc' = "images"
    /\ faultsLeft' = 0
    /\ results' = {}
    /\ TOTALS' = NewTotals
    /\ bytes_written' = 0
    /\ UNCHANGED <<settings, walkVars, classVars, convVars, pollVars, guiVars, raised, planVars, task,
                   FAILED_ITEMS, LOCK, op, ctmp, pfret>>
    /\ UNCHANGED <<fs, INCOMPLETE_TARGETS, INTERRUPTED, pc, target, total_size,
                   downloaded, mode, headers, attempt, retries, impl, body, fpos, ret, tmp,
                   breaksLeft, stallsLeft, startLen, written, firstRange, requests, failed>>

\* ------------------------------------------------- prescan_tasks (planner)

\* What the walker yields for a file: id, name, mimeType, fileExtension and
\* __rel_path.
Leaf(id, name, mime, fext, rel) ==
    [id |-> id, name |-> name, mimeType |-> mime, fileExtension |-> fext, rel_path |-> rel]

\* lines 52-54: the leaf with __root_name and __folder_out.
TaskOf(l, root_name, folder_out) ==
    Node(l.id, l.name, l.mimeType, l.fileExtension, l.rel_path, root_name, folder_out)

\* resolve_folder: the (safe) name of the folder behind a URL.
ResolvedName(url) == safe_filename(IF url = Url1 THEN RootR ELSE RootS)

\* estimate_thumbnail_size_bytes(IMAGE_WIDTH), in chunks.
ThumbEstimate == 1

\* A planner that names the target after the worker that scans the item.
ScanTargetByWorker(w, f) == PlannerTarget(f) \o <<"~", w>>

\* lines 55-66 and 123-124: the path whose existence worker w's scan tests.
ScanTarget(w, f) == PlannerTarget(f)

\* lines 73-87 and 130-137: what a new task adds to the link's bytes.
TaskBytes(f, kind) ==
    IF kind = "image" /\ ~DOWNLOAD_IMAGES_ORIGINAL THEN ThumbEstimate ELSE RemoteLen(f.id)

NoScan == [st |-> "idle"]

\* How often the program has been started anew.
Restarts == Cardinality({i \in DOMAIN plans : plans[i].ended})

\* prescan_tasks is entered (from main() or the GUI's pre-scan worker, which
\* clear INTERRUPTED first): LINK_SUMMARIES = []; the roots are submitted.
P_Begin ==
    /\ ppc = "idle"
    /\ Len(plans) < MaxPlans
    /\ INTERRUPTED' = FALSE
    /\ LINK_SUMMARIES' = <<>>
    /\ urls' = FOLDER_URLS
    /\ tasks_all' = <<>>
    /\ ppc' = "scanning"
    /\ UNCHANGED <<cfgVars, counterVars, mainVars>>
    /\ UNCHANGED <<remote, EXPECTED_IMAGES, EXPECTED_VIDEOS, ALREADY_HAVE_IMAGES,
                   ALREADY_HAVE_VIDEOS, EXPECTED_TOTAL_BYTES, scan, plans, planned, fetched,
                   same>>
    /\ UNCHANGED <<fs, INCOMPLETE_TARGETS, bytes_written, pc, target, total_size,
                   downloaded, mode, headers, attempt, retries, impl, body, fpos, ret, tmp,
                   faultsLeft, breaksLeft, stallsLeft, startLen, written, results, firstRange,
                   requests, failed>>

\* A pool worker begins _scan_one(url): nothing when INTERRUPTED; otherwise
\* the folder is resolved and the walk of its tree begins.
P_Take(w) ==
    /\ ppc = "scanning"
    /\ scan[w].st = "idle"
    /\ urls # <<>>
    /\ urls' = Tail(urls)
    /\ LET url == Head(urls)
       IN  IF INTERRUPTED
           THEN UNCHANGED scan
           ELSE scan' = [scan EXCEPT ![w] =
                           [st |-> "scan", url |-> url, root_name |-> ResolvedName(url),
                            folder_out |-> FolderOut(url, ResolvedName(url)),
                            todo |-> remote[url], pos |-> 0, local_tasks |-> <<>>,
                            images |-> 0, images_existing |-> 0,
                            videos |-> 0, videos_existing |-> 0, bytes |-> 0]]
    /\ UNCHANGED <<cfgVars, counterVars, mainVars, engineVars>>
    /\ UNCHANGED <<remote, EXPECTED_IMAGES, EXPECTED_VIDEOS, ALREADY_HAVE_IMAGES,
                   ALREADY_HAVE_VIDEOS, EXPECTED_TOTAL_BYTES, LINK_SUMMARIES, ppc, tasks_all,
                   plans, planned, fetched, same>>

\* resolve_folder fails (not found, no access, not a folder): no tasks.
P_ResolveFails(w) ==
    /\ ppc = "scanning"
    /\ scan[w].st = "idle"
    /\ urls # <<>>
    /\ ~INTERRUPTED
    /\ faultsLeft > 0
    /\ faultsLeft' = faultsLeft - 1
    /\ urls' = Tail(urls)
    /\ same' = FALSE
    /\ UNCHANGED <<cfgVars, counterVars, mainVars>>
    /\ UNCHANGED <<remote, EXPECTED_IMAGES, EXPECTED_VIDEOS, ALREADY_HAVE_IMAGES,
                   ALREADY_HAVE_VIDEOS, EXPECTED_TOTAL_BYTES, LINK_SUMMARIES, ppc, scan,
                   tasks_all, plans, planned, fetched>>
    /\ UNCHANGED <<fs, INCOMPLETE_TARGETS, INTERRUPTED, bytes_written, pc, target, total_size,
                   downloaded, mode, headers, attempt, retries, impl, body, fpos, ret, tmp,
                   breaksLeft, stallsLeft, startLen, written, results, firstRange, requests, failed>>

\* One round of `for f in list_folder_recursive(...)`, lines 46-142: the walk
\* ends when INTERRUPTED; otherwise the leaf is classified, counted, and
\* either found on disk or appended to the tasks.
P_ScanItem(w) ==
    /\ ppc = "scanning"
    /\ scan[w].st = "scan"
    /\ scan[w].todo # <<>>
    /\ LOCK = "free"
    /\ IF INTERRUPTED
       THEN /\ scan' = [scan EXCEPT ![w].todo = <<>>]
            /\ UNCHANGED <<EXPECTED_IMAGES, EXPECTED_VIDEOS, ALREADY_HAVE_IMAGES,
                           ALREADY_HAVE_VIDEOS, planned>>
       ELSE LET sc   == scan[w]
                f    == TaskOf(Head(sc.todo), sc.root_name, sc.folder_out)
                kind == PlannerKind(f)
                t    == ScanTarget(w, f)
                have == Exists(t)
                add  == ~have /\ (kind = "image" \/ DOWNLOAD_VIDEOS)
                img  == IF kind = "image" THEN 1 ELSE 0
                vid  == IF kind = "video" THEN 1 ELSE 0
                old  == IF have THEN 1 ELSE 0
            IN  IF kind = "none"
                THEN /\ scan' = [scan EXCEPT ![w].todo = Tail(sc.todo), ![w].pos = sc.pos + 1]
                     /\ UNCHANGED <<EXPECTED_IMAGES, EXPECTED_VIDEOS, ALREADY_HAVE_IMAGES,
                                    ALREADY_HAVE_VIDEOS, planned>>
                ELSE /\ EXPECTED_IMAGES' = EXPECTED_IMAGES + img
                     /\ EXPECTED_VIDEOS' = EXPECTED_VIDEOS + vid
                     /\ ALREADY_HAVE_IMAGES' = ALREADY_HAVE_IMAGES + img * old
                     /\ ALREADY_HAVE_VIDEOS' = ALREADY_HAVE_VIDEOS + vid * old
                     /\ scan' = [scan EXCEPT
                                   ![w].todo = Tail(sc.todo),
                                   ![w].pos = sc.pos + 1,
                                   ![w].images = sc.images + img,
                                   ![w].videos = sc.videos + vid,
                                   ![w].images_existing = sc.images_existing + img * old,
                                   ![w].videos_existing = sc.videos_existing + vid * old,
                                   ![w].local_tasks = IF add THEN Append(sc.local_tasks, f)
                                                      ELSE sc.local_tasks,
                                   ![w].bytes = IF add THEN sc.bytes + TaskBytes(f, kind)
                                                ELSE sc.bytes]
                     /\ planned' = planned \cup
                                     {[node |-> f, path |-> t, have |-> have, by |-> w,
                                       pos |-> sc.pos, proc |-> Restarts,
                                       was |-> f \in fetched]}
    /\ UNCHANGED <<cfgVars, counterVars, mainVars, engineVars>>
    /\ UNCHANGED <<remote, EXPECTED_TOTAL_BYTES, LINK_SUMMARIES, ppc, urls, tasks_all, plans,
                   fetched, same>>

\* The listing raises (lines 143-145): the tasks found so far are returned
\* and no summary is recorded.
P_ListingFails(w) ==
    /\ ppc = "scanning"
    /\ scan[w].st = "scan"
    /\ scan[w].todo # <<>>
    /\ ~INTERRUPTED
    /\ faultsLeft > 0
    /\ faultsLeft' = faultsLeft - 1
    /\ tasks_all' = tasks_all \o scan[w].local_tasks
    /\ scan' = [scan EXCEPT ![w] = NoScan]
    /\ same' = FALSE
    /\ UNCHANGED <<cfgVars, counterVars, mainVars>>
    /\ UNCHANGED <<remote, EXPECTED_IMAGES, EXPECTED_VIDEOS, ALREADY_HAVE_IMAGES,
                   ALREADY_HAVE_VIDEOS, EXPECTED_TOTAL_BYTES, LINK_SUMMARIES, ppc, urls, plans,
                   planned, fetched>>
    /\ UNCHANGED <<fs, INCOMPLETE_TARGETS, INTERRUPTED, bytes_written, pc, target, total_size,
                   downloaded, mode, headers, attempt, retries, impl, body, fpos, ret, tmp,
                   breaksLeft, stallsLeft, startLen, written, results, firstRange, requests, failed>>

\* Lines 159-175: the link's summary and bytes are recorded under _LOCK and
\* the tasks returned (prescan_tasks extends tasks_all with them).
P_Summary(w) ==
    /\ ppc = "scanning"
    /\ scan[w].st = "scan"
    /\ scan[w].todo = <<>>
    /\ LOCK = "free"
    /\ LINK_SUMMARIES' = Append(LINK_SUMMARIES,
                                [root_name |-> scan[w].root_name, url |-> scan[w].url,
                                 images |-> scan[w].images,
                                 images_existing |-> scan[w].images_existing,
                                 videos |-> scan[w].videos,
                                 videos_existing |-> scan[w].videos_existing,
                                 bytes |-> scan[w].bytes])
    /\ EXPECTED_TOTAL_BYTES' = EXPECTED_TOTAL_BYTES + scan[w].bytes
    /\ tasks_all' = tasks_all \o scan[w].local_tasks
    /\ scan' = [scan EXCEPT ![w] = NoScan]
    /\ UNCHANGED <<cfgVars, counterVars, mainVars, engineVars>>
    /\ UNCHANGED <<remote, EXPECTED_IMAGES, EXPECTED_VIDEOS, ALREADY_HAVE_IMAGES,
                   ALREADY_HAVE_VIDEOS, ppc, urls, plans, planned, fetched, same>>

\* Elements of a sequence.
Range(q) == {q[i] : i \in DOMAIN q}

\* prescan_tasks returns tasks_all: every submitted scan has completed.
P_End ==
    /\ ppc = "scanning"
    /\ urls = <<>>
    /\ \A w \in Workers : scan[w].st = "idle"
    /\ ppc' = "idle"
    /\ plans' = Append(plans,
                       [tasks |-> Range(tasks_all),
                        images |-> EXPECTED_IMAGES, videos |-> EXPECTED_VIDEOS,
                        have_images |-> ALREADY_HAVE_IMAGES,
                        have_videos |-> ALREADY_HAVE_VIDEOS,
                        bytes |-> EXPECTED_TOTAL_BYTES,
                        clean |-> ~INTERRUPTED, ended |-> FALSE])
    /\ UNCHANGED <<cfgVars, counterVars, mainVars, engineVars>>
    /\ UNCHANGED <<remote, EXPECTED_IMAGES, EXPECTED_VIDEOS, ALREADY_HAVE_IMAGES,
                   ALREADY_HAVE_VIDEOS, EXPECTED_TOTAL_BYTES, LINK_SUMMARIES, urls, scan,
                   tasks_all, planned, fetched, same>>

\* The program is started anew: the module's globals are as at import
\* (drive_fetch_resilient.py lines 106-115).
Restart ==
    /\ ppc = "idle"
    /\ plans # <<>>
    /\ ~plans[Len(plans)].ended
    /\ Len(plans) < MaxPlans
    /\ EXPECTED_IMAGES' = 0
    /\ EXPECTED_VIDEOS' = 0
    /\ ALREADY_HAVE_IMAGES' = 0
    /\ ALREADY_HAVE_VIDEOS' = 0
    /\ EXPECTED_TOTAL_BYTES' = 0
    /\ LINK_SUMMARIES' = <<>>
    /\ tasks_all' = <<>>
    /\ INTERRUPTED' = FALSE
    /\ plans' = [plans EXCEPT ![Len(plans)].ended = TRUE]
    /\ UNCHANGED <<cfgVars, counterVars, mainVars>>
    /\ UNCHANGED <<remote, ppc, urls, scan, planned, fetched, same>>
    /\ UNCHANGED <<fs, INCOMPLETE_TARGETS, bytes_written, pc, target, total_size,
                   downloaded, mode, headers, attempt, retries, impl, body, fpos, ret, tmp,
                   faultsLeft, breaksLeft, stallsLeft, startLen, written, results, firstRange,
                   requests, failed>>

\* The tasks of the last pre-scan are downloaded: what a run of main() in
\* which every process_file call succeeds leaves behind (process.py lines
\* 17-53, 66-86).
Fetchable(f) ==
    /\ ProcessKind(f) # "none"
    /\ ~Exists(ProcessTarget(f))
    /\ ProcessKind(f) = "video" => DOWNLOAD_VIDEOS

FetchAll ==
    /\ ppc = "idle"
    /\ \E f \in Range(tasks_all) : Fetchable(f) /\ f \notin fetched
    /\ LET got == {f \in Range(tasks_all) : Fetchable(f)}
       IN  /\ fs' = [p \in DOMAIN fs \cup {ProcessTarget(f) : f \in got} |->
                       IF \E f \in got : p = ProcessTarget(f)
                       THEN RemoteContent((CHOOSE f \in got : p = ProcessTarget(f)).id)
                       ELSE fs[p]]
           /\ fetched' = fetched \cup got
    /\ same' = FALSE
    /\ UNCHANGED <<cfgVars, counterVars, mainVars>>
    /\ UNCHANGED <<remote, EXPECTED_IMAGES, EXPECTED_VIDEOS, ALREADY_HAVE_IMAGES,
                   ALREADY_HAVE_VIDEOS, EXPECTED_TOTAL_BYTES, LINK_SUMMARIES, ppc, urls, scan,
                   tasks_all, plans, planned>>
    /\ UNCHANGED <<INCOMPLETE_TARGETS, INTERRUPTED, bytes_written, pc, target, total_size,
                   downloaded, mode, headers, attempt, retries, impl, body, fpos, ret, tmp,
                   faultsLeft, breaksLeft, stallsLeft, startLen, written, results, firstRange,
                   requests, failed>>

\* --------------------------------------------------------------- SpecResume
\* One call of download_file_resumable on the video's target, which holds a
\* partial (or complete, or no) local file: a prefix of the remote content.

Prefix(n) == SubSeq(RemoteContent(Id2), 1, n)

IdleLocals ==
    /\ total_size = [w \in Threads |-> NoSize]
    /\ downloaded = [w \in Threads |-> 0]
    /\ mode = [w \in Threads |-> "wb"]
    /\ headers = [w \in Threads |-> 0]
    /\ attempt = [w \in Threads |-> 0]
    /\ retries = [w \in Threads |-> ThumbRetriesDefault]
    /\ impl = [w \in Threads |-> "pkg"]
    /\ body = [w \in Threads |-> <<>>]
    /\ fpos = [w \in Threads |-> 0]
    /\ ret = [w \in Threads |-> "running"]
    /\ tmp = [w \in Threads |-> 0]
    /\ firstRange = [w \in Threads |-> 0]
    /\ requests = [w \in Threads |-> 0]
    /\ failed = [w \in Threads |-> 0]

\* No pre-scan has run in this process.
IdlePlanner ==
    /\ remote = [u \in {} |-> <<>>]
    /\ EXPECTED_IMAGES = 0
    /\ EXPECTED_VIDEOS = 0
    /\ ALREADY_HAVE_IMAGES = 0
    /\ ALREADY_HAVE_VIDEOS = 0
    /\ EXPECTED_TOTAL_BYTES = 0
    /\ LINK_SUMMARIES = <<>>
    /\ ppc = "idle"
    /\ urls = <<>>
    /\ scan = [w \in Workers |-> [st |-> "idle"]]
    /\ tasks_all = <<>>
    /\ plans = <<>>
    /\ planned = {}
    /\ fetched = {}
    /\ same = TRUE

\* ----------------------------------------------- list_folder_recursive

\* Stand-ins for application/vnd.google-apps.folder and ...shortcut.
FolderMime == <<"f", "o", "l", "d", "e", "r">>

ShortcutMime == <<"s", "h", "o", "r", "t", "c", "u", "t">>

NoDetails == [targetId |-> <<>>, targetMimeType |-> <<>>]

\* A record of files().list with the fields line 81 asks for.  A record's
\* size is that of the item itself; a shortcut has no content of its own.
Item(id, name, mime, fext, size, details) ==
    [id |-> id, name |-> name, mimeType |-> mime, fileExtension |-> fext, size |-> size,
     shortcutDetails |-> details]

FileItem(id, name, mime, fext) == Item(id, name, mime, fext, RemoteLen(id), NoDetails)

FolderItem(id, name) == Item(id, name, FolderMime, NoExt, NoSize, NoDetails)

ShortcutItem(id, name, targetId, targetMime) ==
    Item(id, name, ShortcutMime, NoExt, NoSize,
         [targetId |-> targetId, targetMimeType |-> targetMime])

\* The remote tree that is walked: the pages files().list answers for each
\* folder, a page being the records of one response.
WalkRoot == <<"f", "0">>

FolderD == <<"f", "1">>

FolderE == <<"f", "2">>

NameA == <<"a", ".", "j", "p", "g">>

NameV == <<"v", ".", "m", "p", "4">>

NameC == <<"c", ".", "j", "p", "g">>

\* A second tree, apart from the first: a folder with a file and a subfolder,
\* and in the subfolder a shortcut to the folder above it.
CycleRoot == <<"f", "3">>

CycleSub == <<"f", "4">>

\* A third tree: a folder of shortcuts, to a file, to a folder, and with
\* shortcutDetails missing, without targetMimeType, and without targetId.
ShortcutRoot == <<"f", "5">>

ShortcutIds == {<<"s", "4">>, <<"s", "5">>, <<"s", "6">>, <<"s", "7">>, <<"s", "8">>}

WalkPages(folder) ==
    IF folder = WalkRoot
    THEN << <<FileItem(Id1, NameA, MimeJpeg, <<"j", "p", "g">>),
              FolderItem(FolderD, <<"d", ":">>)>>,
            <<ShortcutItem(<<"s", "1">>, <<"e">>, FolderE, FolderMime),
              ShortcutItem(<<"s", "2">>, <<"w", ".", "m", "p", "4">>, Id2, MimeMp4),
              FileItem(Id3, NameC, MimeJpeg, <<"j", "p", "g">>)>> >>
    ELSE IF folder = FolderD
    THEN << <<FileItem(Id3, NameC, MimeJpeg, <<"j", "p", "g">>)>>,
            <<FileItem(Id2, NameV, MimeMp4, <<"m", "p", "4">>)>> >>
    ELSE IF folder = FolderE
    THEN << <<FileItem(Id1, NameA, MimeJpeg, <<"j", "p", "g">>)>> >>
    ELSE IF folder = CycleRoot
    THEN << <<FileItem(Id1, NameA, MimeJpeg, <<"j", "p", "g">>),
              FolderItem(CycleSub, <<"s", "u", "b">>)>> >>
    ELSE IF folder = CycleSub
    THEN << <<ShortcutItem(<<"s", "3">>, <<"u", "p">>, CycleRoot, FolderMime)>> >>
    ELSE IF folder = ShortcutRoot
    THEN << <<ShortcutItem(<<"s", "4">>, NameV, Id2, MimeMp4),
              ShortcutItem(<<"s", "5">>, <<"e">>, FolderE, FolderMime),
              Item(<<"s", "6">>, <<"x">>, ShortcutMime, NoExt, NoSize, NoDetails)>>,
            <<ShortcutItem(<<"s", "7">>, <<"y">>, Id2, <<>>),
              ShortcutItem(<<"s", "8">>, <<"z">>, <<>>, FolderMime)>> >>
    ELSE << <<>> >>

\* One call of the generator: its folder, its rel_path, the page it is at
\* (the page token), the next record of that page, and whether the page has
\* been requested yet.
Frame(folder, rel) == [folder |-> folder, rel |-> rel, page |-> 1, i |-> 1, st |-> "list"]

WTop == wstack[Len(wstack)]

WPage == WalkPages(WTop.folder)[WTop.page]

SetTop(fr) == [wstack EXCEPT ![Len(wstack)] = fr]

\* `return` of the innermost generator: its caller goes on, and the outermost
\* one's return ends the loop that consumes the walk.
WReturn ==
    /\ wstack' = SubSeq(wstack, 1, Len(wstack) - 1)
    /\ wstatus' = IF Len(wstack) = 1 THEN "done" ELSE wstatus

NoItem == [id |-> <<>>]

IdleWalker ==
    /\ wstack = <<>>
    /\ wstatus = "done"
    /\ witem = NoItem
    /\ yielded = <<>>
    /\ listed = <<>>
    /\ lookups = <<>>

walkRest == <<settings, classVars, convVars, pollVars, guiVars, raised, replayed, counterVars, mainVars, planVars, fs, INCOMPLETE_TARGETS,
              bytes_written, pc, target, total_size, downloaded, mode, headers, attempt,
              retries, impl, body, fpos, ret, tmp, breaksLeft, stallsLeft, startLen, written,
              results, firstRange, requests, failed>>

\* Lines 72-87: the top of `while True`; the page is requested with the page
\* token and gapi_execute_with_retry answers.
W_List ==
    /\ wstatus = "running"
    /\ wstack # <<>>
    /\ WTop.st = "list"
    /\ IF INTERRUPTED
       THEN /\ WReturn
            /\ UNCHANGED listed
       ELSE /\ wstack' = SetTop([WTop EXCEPT !.st = "items", !.i = 1])
            /\ listed' = Append(listed, <<WTop.folder, WTop.page>>)
            /\ UNCHANGED wstatus
    /\ UNCHANGED <<walkRest, INTERRUPTED, faultsLeft, witem, yielded, lookups>>

\* Line 87: gapi_execute_with_retry raises (an HttpError that is not
\* transient at once, a RuntimeError when the retries are used up).  No
\* generator catches it, so it leaves them all and reaches the consumer,
\* which is handed the folder that could not be listed.
W_ListRaises ==
    /\ wstatus = "running"
    /\ wstack # <<>>
    /\ WTop.st = "list"
    /\ ~INTERRUPTED
    /\ faultsLeft > 0
    /\ faultsLeft' = faultsLeft - 1
    /\ wstack' = <<>>
    /\ wstatus' = "raised"
    /\ witem' = [id |-> WTop.folder, rel_path |-> WTop.rel]
    /\ UNCHANGED <<walkRest, INTERRUPTED, yielded, listed, lookups>>

\* A walker that never follows the page token.
W_PageEndFirstOnly ==
    /\ wstatus = "running"
    /\ wstack # <<>>
    /\ WTop.st = "items"
    /\ WTop.i > Len(WPage)
    /\ WReturn
    /\ UNCHANGED <<walkRest, INTERRUPTED, faultsLeft, witem, yielded, listed, lookups>>

\* Lines 125-127: the records of the page are used up; nextPageToken is
\* followed, and without one the generator ends.
W_PageEnd ==
    /\ wstatus = "running"
    /\ wstack # <<>>
    /\ WTop.st = "items"
    /\ WTop.i > Len(WPage)
    /\ IF WTop.page < Len(WalkPages(WTop.folder))
       THEN /\ wstack' = SetTop([WTop EXCEPT !.page = WTop.page + 1, !.st = "list"])
            /\ UNCHANGED wstatus
       ELSE WReturn
    /\ UNCHANGED <<walkRest, INTERRUPTED, faultsLeft, witem, yielded, listed, lookups>>

\* Lines 101-120: the node made of a shortcut whose target is not a folder.
ShortcutNode(item, rel) ==
    [id |-> IF item.shortcutDetails.targetId # <<>> THEN item.shortcutDetails.targetId
            ELSE item.id,
     name |-> item.name,
     mimeType |-> IF item.shortcutDetails.targetMimeType # <<>>
                  THEN item.shortcutDetails.targetMimeType ELSE item.mimeType,
     fileExtension |-> item.fileExtension,
     size |-> item.size,
     rel_path |-> rel,
     from_shortcut |-> TRUE]

\* Lines 122-123: a record that is neither folder nor shortcut, with its
\* __rel_path.
FileNode(item, rel) ==
    [id |-> item.id, name |-> item.name, mimeType |-> item.mimeType,
     fileExtension |-> item.fileExtension, size |-> item.size, rel_path |-> rel,
     from_shortcut |-> FALSE]

\* Lines 97-99: the rel_path of a subfolder.
SubRel(rel, name) ==
    IF rel # <<>> THEN PathJoin(rel, safe_filename(name)) ELSE safe_filename(name)

\* Lines 89-123: one round of `for item in resp.get("files", [])`.
W_Item ==
    /\ wstatus = "running"
    /\ wstack # <<>>
    /\ WTop.st = "items"
    /\ WTop.i <= Len(WPage)
    /\ LET item == WPage[WTop.i]
           next == SetTop([WTop EXCEPT !.i = WTop.i + 1])
           det  == item.shortcutDetails
       IN  IF INTERRUPTED
           THEN /\ WReturn
                /\ UNCHANGED witem
           ELSE IF item.mimeType = FolderMime
           THEN /\ wstack' = Append(next, Frame(item.id, SubRel(WTop.rel, item.name)))
                /\ UNCHANGED <<wstatus, witem>>
           ELSE IF item.mimeType = ShortcutMime
                   /\ det.targetMimeType = FolderMime /\ det.targetId # <<>>
           THEN /\ wstack' = Append(next, Frame(det.targetId, SubRel(WTop.rel, item.name)))
                /\ UNCHANGED <<wstatus, witem>>
           ELSE /\ wstack' = next
                /\ wstatus' = "yielded"
                /\ witem' = IF item.mimeType = ShortcutMime
                            THEN ShortcutNode(item, WTop.rel)
                            ELSE FileNode(item, WTop.rel)
    /\ UNCHANGED <<walkRest, INTERRUPTED, faultsLeft, yielded, listed, lookups>>

\* prescan.py, lines 46-142, for the node the walk has yielded: the loop
\* breaks when INTERRUPTED; a missing original image or wanted video whose
\* record carries no size is looked up with get_item(svc, fid, "size").
Scan_Body ==
    /\ wstatus = "yielded"
    /\ IF INTERRUPTED
       THEN /\ wstatus' = "closed"
            /\ wstack' = <<>>
            /\ UNCHANGED <<yielded, lookups>>
       ELSE LET f     == TaskOf(witem, RootR, OutR)
                kind  == PlannerKind(f)
                sized == ~Exists(ScanTarget("w1", f))
                         /\ \/ kind = "image" /\ DOWNLOAD_IMAGES_ORIGINAL
                            \/ kind = "video" /\ DOWNLOAD_VIDEOS
                sz    == IF witem.size = NoSize THEN 0 ELSE witem.size
            IN  /\ wstatus' = "running"
                /\ yielded' = Append(yielded, witem)
                /\ lookups' = IF sized /\ sz = 0 THEN Append(lookups, witem.id) ELSE lookups
                /\ UNCHANGED wstack
    /\ UNCHANGED <<walkRest, INTERRUPTED, faultsLeft, witem, listed>>

\* -------------------------------------------------------- classify_media

NoKind == [impl |-> "none", kind |-> "unset"]

IdleClassifier ==
    /\ cin = [mime |-> <<>>, name |-> <<>>, fext |-> <<>>]
    /\ cout = NoKind

\* No conversion-mode run.
IdleConverter ==
    /\ thumbs = <<>>
    /\ converted = {}

\* No run_prescan thread.
IdlePoller ==
    /\ sent_count = 0
    /\ prescan_done = FALSE
    /\ poller = [pc |-> "none", summaries |-> <<>>]
    /\ flusher = "none"
    /\ delivered = <<>>

\* dfr/utils.py: classify_media(mime, name, file_ext) returns.
Classify ==
    /\ cout = NoKind
    /\ cout' = [impl |-> "pkg", kind |-> classify_media(cin.mime, cin.name, cin.fext)]
    /\ UNCHANGED <<settings, walkVars, cin, convVars, pollVars, guiVars, raised, replayed, counterVars, mainVars, planVars,
                   engineVars>>

\* drive_fetch_resilient.py: classify_media(mime, name, file_ext) returns.
ClassifyMono ==
    /\ cout = NoKind
    /\ cout' = [impl |-> "mono", kind |-> classify_media_mono(cin.mime, cin.name, cin.fext)]
    /\ UNCHANGED <<settings, walkVars, cin, convVars, pollVars, guiVars, raised, replayed, counterVars, mainVars, planVars,
                   engineVars>>

\* How many pre-scans the user starts in one behaviour, and how many root
\* folders each of them scans.
MaxScans == 2

GuiRoots == 2

Scans == 1..MaxScans

NoGScan == [pc |-> "none", todo |-> 0, busy |-> 0, full |-> 0]

\* The application after App.__init__: Start enabled, Cancel disabled, no
\* preview window, no thread.
IdleGui ==
    /\ start_btn = "normal"
    /\ cancel_btn = "disabled"
    /\ prescan_win = [id |-> 0, exists |-> FALSE]
    /\ prescan_start_button = "disabled"
    /\ prescan_tasks = [gen |-> 0, n |-> 0]
    /\ gscan = [g \in Scans |-> NoGScan]
    /\ worker = "none"

IdleCounters ==
    /\ TOTALS = NewTotals
    /\ FAILED_ITEMS = <<>>
    /\ LOCK = "free"
    /\ op = [w \in Threads |-> "scanned"]
    /\ ctmp = [w \in Threads |-> <<0, 0>>]
    /\ pfret = [w \in Threads |-> FALSE]

InitResume ==
    /\ DOWNLOAD_IMAGES_ORIGINAL = FALSE
    /\ DOWNLOAD_VIDEOS = TRUE
    /\ \E L \in 0..RemoteSize :
         /\ fs = [p \in {ProcessTarget(VideoTask)} |-> IF L = 0 THEN NoFile ELSE Prefix(L)]
         /\ startLen = [w \in Threads |-> L]
    /\ before = fs
    /\ PAUSE = FALSE
    /\ IdleGui
    /\ IdleWalker
    /\ IdleClassifier
    /\ IdleConverter
    /\ IdlePoller
    /\ raised = {}
    /\ replayed = <<>>
    /\ INCOMPLETE_TARGETS = {}
    /\ INTERRUPTED = FALSE
    /\ bytes_written = 0
    /\ pc = [w \in Threads |-> IF w = "w1" THEN "df_start" ELSE "idle"]
    /\ target = [w \in Threads |-> ProcessTarget(VideoTask)]
    /\ IdleLocals
    /\ faultsLeft = MaxFaults
    /\ breaksLeft = MaxBreaks
    /\ stallsLeft = MaxStalls
    /\ written = 0
    /\ results = {}
    /\ IdleCounters
    /\ IdlePlanner
    /\ mpc = "call"
    /\ image_tasks = <<>>
    /\ video_tasks = <<>>
    /\ task = [w \in Threads |-> IF w = "w1" THEN VideoTask ELSE NoTask]

NextResume ==
    \/ \E w \in Threads : download_file_resumable(w)
    \/ SetInterrupted

SpecResume == InitResume /\ [][NextResume]_vars

\* C1: resume correctness.  With the remote size known and a partial local
\* file of length L (0 < L < RemoteSize) when the call begins, the first
\* content request carries a Range starting at L, and whenever the call
\* returns True the local file is exactly the remote content.
C1_ResumeCorrect ==
    \A w \in Threads :
        (total_size[w] = RemoteSize /\ 0 < startLen[w] /\ startLen[w] < RemoteSize)
        => /\ requests[w] > 0 => firstRange[w] = startLen[w]
           /\ (pc[w] = "returned" /\ ret[w] = "True") => fs[target[w]] = RemoteContent(Id2)

\* ------------------------------------------------------------------ SpecRun
\* A normal run of main() from the point where the task list is partitioned:
\* the image pool (two workers), the sequential videos, cleanup.

\* A second image, and a file shortcut to the first one that sits next to it
\* under the same name: the walker yields it with the target's id, so its
\* record equals the file's.
ImageTask2 == Node(Id3, <<"b", ".", "j", "p", "g">>, MimeJpeg, <<"j", "p", "g">>, <<>>, RootR, OutR)

ShortcutTask == Node(Id1, <<"a", ".", "j", "p", "g">>, MimeJpeg, <<"j", "p", "g">>, <<>>, RootR, OutR)

\* The runs examined: [original, videos, images, have] - the two operator
\* settings, the image tasks, and whether the video's file is already there.
Scenario(original, videos, images, have) ==
    [original |-> original, videos |-> videos, images |-> images, have |-> have]

RunScenarios ==
    {Scenario(TRUE, TRUE, <<ImageTask, ShortcutTask>>, TRUE),
     Scenario(FALSE, FALSE, <<ImageTask, ImageTask2>>, FALSE),
     Scenario(FALSE, FALSE, <<ImageTask, ShortcutTask>>, FALSE),
     Scenario(FALSE, TRUE, <<ImageTask>>, FALSE)}

\* The complete content of the file a path of the run belongs to.
CompleteAt(p) ==
    IF p = ProcessTarget(VideoTask) THEN RemoteContent(Id2) ELSE RemoteContent(Id1)

RunTargets == {ProcessTarget(t) : t \in {ImageTask, ImageTask2, ShortcutTask, VideoTask}}

InitRun ==
    /\ \E s \in RunScenarios :
         /\ DOWNLOAD_IMAGES_ORIGINAL = s.original
         /\ DOWNLOAD_VIDEOS = s.videos
         /\ image_tasks = s.images
         /\ fs = [p \in RunTargets |->
                    IF s.have /\ p = ProcessTarget(VideoTask) THEN RemoteContent(Id2) ELSE NoFile]
    /\ before = fs
    /\ PAUSE = FALSE
    /\ IdleGui
    /\ IdleWalker
    /\ IdleClassifier
    /\ IdleConverter
    /\ IdlePoller
    /\ raised = {}
    /\ replayed = <<>>
    /\ video_tasks = <<VideoTask>>
    /\ startLen = [w \in Threads |-> 0]
    /\ INCOMPLETE_TARGETS = {}
    /\ INTERRUPTED = FALSE
    /\ bytes_written = 0
    /\ pc = [w \in Threads |-> "idle"]
    /\ target = [w \in Threads |-> NoPath]
    /\ IdleLocals
    /\ \E k \in 1..3 :
         /\ faultsLeft = (IF k = 1 THEN RunFaults ELSE 0)
         /\ breaksLeft = (IF k = 2 THEN RunFaults ELSE 0)
         /\ stallsLeft = (IF k = 3 THEN RunFaults ELSE 0)
    /\ written = 0
    /\ results = {}
    /\ IdleCounters
    /\ IdlePlanner
    /\ mpc = "images"
    /\ task = [w \in Threads |-> NoTask]

NextRun ==
    \/ \E w \in Workers : Pool_Take(w)
    \/ M_PoolDone
    \/ M_VideoLoop
    \/ M_Cleanup
    \/ \E w \in Threads : process_file(w)
    \/ \E w \in Threads : download_file_resumable(w)
    \/ \E w \in Threads : download_thumbnail(w)
    \/ SetInterrupted

SpecRun == InitRun /\ [][NextRun]_vars

\* C2: cleanup after a normal run.  When main() has returned, no path on
\* which a transfer of the run returned without success (failure or interrupt)
\* holds a partially written file.
C2_NoPartialLeft ==
    mpc = "done" =>
        \A r \in results : r[2] # "True" => fs[r[1]] \in {NoFile, CompleteAt(r[1])}

\* C3: completed files are untouched by cleanup.  When main() has returned,
\* every path on which a transfer of the run returned success still holds its
\* file, and so does every path that held a complete file before the run.
C3_DoneFilesKept ==
    mpc = "done" =>
        /\ \A r \in results : r[2] = "True" => Exists(r[1])
        /\ \A p \in DOMAIN fs : before[p] = CompleteAt(p) => fs[p] = CompleteAt(p)

\* ----------------------------------------------------------------- SpecPlan
\* Pre-scans of two root folders by two scan workers, in one process or
\* across restarts, with downloads and changes of the remote tree in between.

LeafA == Leaf(Id1, <<"a", ".", "j", "p", "g">>, MimeJpeg, <<"j", "p", "g">>, <<>>)

LeafV == Leaf(Id2, <<"v", ".", "m", "p", "4">>, MimeMp4, <<"m", "p", "4">>, <<>>)

\* A name safe_filename alters, and an extension-less image in a subfolder.
LeafU == Leaf(Id3, <<"b", ":", "c", ".", "j", "p", "g">>, MimeJpeg, <<"j", "p", "g">>, <<>>)

LeafSub == Leaf(Id3, <<"d">>, MimeJpeg, NoExt, <<"s", "u", "b">>)

Tree(a, b) == [u \in {Url1, Url2} |-> IF u = Url1 THEN a ELSE b]

PlanTrees ==
    {Tree(<<LeafA, LeafV>>, <<LeafSub>>),
     Tree(<<LeafV, LeafA>>, <<LeafSub>>),
     Tree(<<LeafU, LeafA>>, <<>>)}

\* The remote tree changes between two pre-scans.
RemoteChanges ==
    /\ ppc = "idle"
    /\ plans # <<>>
    /\ Len(plans) < MaxPlans
    /\ \E t \in PlanTrees \ {remote} : remote' = t
    /\ same' = FALSE
    /\ UNCHANGED <<cfgVars, counterVars, mainVars, engineVars>>
    /\ UNCHANGED <<EXPECTED_IMAGES, EXPECTED_VIDEOS, ALREADY_HAVE_IMAGES,
                   ALREADY_HAVE_VIDEOS, EXPECTED_TOTAL_BYTES, LINK_SUMMARIES, ppc, urls, scan,
                   tasks_all, plans, planned, fetched>>

PlanLeaves == {LeafA, LeafV, LeafU, LeafSub}

PlanNodes ==
    {TaskOf(l, ResolvedName(u), FolderOut(u, ResolvedName(u))) :
        l \in PlanLeaves, u \in {Url1, Url2}}

PlanPaths == {PlannerTarget(f) : f \in PlanNodes} \cup {ProcessTarget(f) : f \in PlanNodes}

\* The pre-scans examined: the two operator settings, the remote tree, and
\* whether LeafA's file is already there.
PlanScenario(original, videos, tree, have) ==
    [original |-> original, videos |-> videos, tree |-> tree, have |-> have]

PlanScenarios ==
    {PlanScenario(FALSE, TRUE, Tree(<<LeafA, LeafV>>, <<LeafSub>>), FALSE),
     PlanScenario(TRUE, FALSE, Tree(<<LeafA, LeafV>>, <<LeafSub>>), TRUE),
     PlanScenario(FALSE, TRUE, Tree(<<LeafU, LeafA>>, <<>>), FALSE)}

InitPlan ==
    /\ \E s \in PlanScenarios :
         /\ DOWNLOAD_IMAGES_ORIGINAL = s.original
         /\ DOWNLOAD_VIDEOS = s.videos
         /\ remote = s.tree
         /\ fs = [p \in PlanPaths |->
                    IF s.have /\ p = PlannerTarget(TaskOf(LeafA, RootR, OutR))
                    THEN RemoteContent(Id1) ELSE NoFile]
    /\ before = fs
    /\ PAUSE = FALSE
    /\ IdleGui
    /\ IdleWalker
    /\ IdleClassifier
    /\ IdleConverter
    /\ IdlePoller
    /\ raised = {}
    /\ replayed = <<>>
    /\ EXPECTED_IMAGES = 0
    /\ EXPECTED_VIDEOS = 0
    /\ ALREADY_HAVE_IMAGES = 0
    /\ ALREADY_HAVE_VIDEOS = 0
    /\ EXPECTED_TOTAL_BYTES = 0
    /\ LINK_SUMMARIES = <<>>
    /\ ppc = "idle"
    /\ urls = <<>>
    /\ scan = [w \in Workers |-> NoScan]
    /\ tasks_all = <<>>
    /\ plans = <<>>
    /\ planned = {}
    /\ fetched = {}
    /\ same = TRUE
    /\ startLen = [w \in Threads |-> 0]
    /\ INCOMPLETE_TARGETS = {}
    /\ INTERRUPTED = FALSE
    /\ bytes_written = 0
    /\ pc = [w \in Threads |-> "idle"]
    /\ target = [w \in Threads |-> NoPath]
    /\ IdleLocals
    /\ faultsLeft = PlanFaults
    /\ breaksLeft = 0
    /\ stallsLeft = 0
    /\ written = 0
    /\ results = {}
    /\ IdleCounters
    /\ mpc = "prescan"
    /\ image_tasks = <<>>
    /\ video_tasks = <<>>
    /\ task = [w \in Threads |-> NoTask]

NextPlan ==
    \/ P_Begin
    \/ \E w \in Workers : P_Take(w)
    \/ \E w \in Workers : P_ResolveFails(w)
    \/ \E w \in Workers : P_ScanItem(w)
    \/ \E w \in Workers : P_ListingFails(w)
    \/ \E w \in Workers : P_Summary(w)
    \/ P_End
    \/ Restart
    \/ RemoteChanges
    \/ FetchAll
    \/ SetInterrupted

SpecPlan == InitPlan /\ [][NextPlan]_vars

\* C4: planner idempotence.  When a pre-scan is repeated with nothing changed
\* and nothing failed or interrupted since the first one, it yields no task the
\* first did not yield and leaves the expectation counters as the first did.
C4_PlannerIdempotent ==
    \A i \in 2..Len(plans) :
        (same /\ plans[1].clean /\ plans[i].clean)
        => /\ plans[i].tasks \subseteq plans[1].tasks
           /\ plans[i].images = plans[1].images
           /\ plans[i].videos = plans[1].videos
           /\ plans[i].have_images = plans[1].have_images
           /\ plans[i].have_videos = plans[1].have_videos
           /\ plans[i].bytes = plans[1].bytes

\* C5: the path whose existence the planner tests for an item is the path
\* process_file writes that item to, so an item that was downloaded is found
\* by the next pre-scan.
C5_SameTargetPath ==
    \A r \in planned :
        /\ r.path = ProcessTarget(r.node)
        /\ r.was => r.have

C11_HaveOrEnqueued ==
    LET TasksOfKind(q, k) == Cardinality({i \in DOMAIN q : PlannerKind(q[i]) = k})
    IN  \A w \in Workers :
        scan[w].st = "scan"
        => /\ scan[w].images
                = scan[w].images_existing + TasksOfKind(scan[w].local_tasks, "image")
           /\ scan[w].videos
                = scan[w].videos_existing + TasksOfKind(scan[w].local_tasks, "video")

\* C15: root-scan failure isolation.  In every step in which the scan of a
\* root ends without the summary of a completed scan, because the folder did
\* not resolve or the listing raised, the failed root adds no task to the
\* task list and the scans of the other roots are left as they are.
C15_FailedRootEmpty ==
    [][\A w \in Workers :
         (scan[w].st = "scan" /\ scan'[w].st = "idle" /\ LINK_SUMMARIES' = LINK_SUMMARIES)
         => /\ tasks_all' = tasks_all
            /\ \A v \in Workers \ {w} : scan'[v] = scan[v]]_vars

\* ---------------------------------------------------------------- SpecRetry
\* One call, by thread w1, of one of the three functions that retry: with a
\* `retries` argument for the two that take one (both modules' download_thumbnail).

RetryArgs == {MinRetries, GapiRetries, ThumbRetriesDefault, MaxRetries}

RetryCalls ==
    {[site |-> "g_start", impl |-> "pkg", retries |-> r, have |-> FALSE] : r \in RetryArgs}
    \cup {[site |-> "dt_start", impl |-> i, retries |-> r, have |-> FALSE] :
            i \in {"pkg", "mono"}, r \in RetryArgs}
    \cup {[site |-> "df_start", impl |-> "pkg", retries |-> ThumbRetriesDefault, have |-> h] :
            h \in BOOLEAN}

\* The item the call at `site` is about.
CallTask(site) ==
    IF site = "g_start" THEN NoTask ELSE IF site = "dt_start" THEN ImageTask ELSE VideoTask

InitRetry ==
    /\ DOWNLOAD_IMAGES_ORIGINAL = FALSE
    /\ DOWNLOAD_VIDEOS = TRUE
    /\ \E c \in RetryCalls :
         /\ pc = [w \in Threads |-> IF w = "w1" THEN c.site ELSE "idle"]
         /\ task = [w \in Threads |-> IF w = "w1" THEN CallTask(c.site) ELSE NoTask]
         /\ target = [w \in Threads |->
                        IF w = "w1" /\ c.site # "g_start" THEN ProcessTarget(CallTask(c.site))
                        ELSE NoPath]
         /\ retries = [w \in Threads |-> c.retries]
         /\ impl = [w \in Threads |-> c.impl]
         /\ fs = [p \in {ProcessTarget(ImageTask), ProcessTarget(VideoTask)} |->
                    IF c.have /\ p = ProcessTarget(VideoTask) THEN RemoteContent(Id2) ELSE NoFile]
         /\ startLen = [w \in Threads |-> IF c.have THEN RemoteSize ELSE 0]
    /\ before = fs
    /\ PAUSE = FALSE
    /\ IdleGui
    /\ IdleWalker
    /\ IdleClassifier
    /\ IdleConverter
    /\ IdlePoller
    /\ raised = {}
    /\ replayed = <<>>
    /\ INCOMPLETE_TARGETS = {}
    /\ INTERRUPTED = FALSE
    /\ bytes_written = 0
    /\ total_size = [w \in Threads |-> NoSize]
    /\ downloaded = [w \in Threads |-> 0]
    /\ mode = [w \in Threads |-> "wb"]
    /\ headers = [w \in Threads |-> 0]
    /\ attempt = [w \in Threads |-> 0]
    /\ body = [w \in Threads |-> <<>>]
    /\ fpos = [w \in Threads |-> 0]
    /\ ret = [w \in Threads |-> "running"]
    /\ tmp = [w \in Threads |-> 0]
    /\ firstRange = [w \in Threads |-> 0]
    /\ requests = [w \in Threads |-> 0]
    /\ failed = [w \in Threads |-> 0]
    /\ faultsLeft = MaxRetries
    /\ breaksLeft = RetryBreaks
    /\ stallsLeft = MaxStalls
    /\ written = 0
    /\ results = {}
    /\ IdleCounters
    /\ IdlePlanner
    /\ mpc = "call"
    /\ image_tasks = <<>>
    /\ video_tasks = <<>>

NextRetry ==
    \/ \E w \in Threads : gapi_execute_with_retry(w)
    \/ \E w \in Threads : download_thumbnail(w)
    \/ \E w \in Threads : download_file_resumable(w)

SpecRetry == InitRetry /\ [][NextRetry]_vars

\* The number of attempts the call of thread w is configured to make.
RetryCeiling(w) == IF task[w] = VideoTask THEN ChunkRetries ELSE retries[w]

\* C7: retry ceiling.  While every attempt a call has made failed with a
\* transient error, the call has made no more attempts than its ceiling
\* (GapiRetries or the retries argument for the listing call, the retries
\* argument for the preview fetch, ChunkRetries for the resumable loop), and
\* when it returns it has made exactly that many and reports failure.
C7_RetryCeiling ==
    \A w \in Threads :
        (requests[w] > 0 /\ failed[w] = requests[w])
        => /\ requests[w] <= RetryCeiling(w)
           /\ pc[w] = "returned"
              => (requests[w] = RetryCeiling(w) /\ ret[w] \in {"False", "RuntimeError"})

\* -------------------------------------------------------------- SpecPreview
\* process_file on one image in preview mode, by thread w1, against a server
\* that may fail requests, break a response or end it early.

InitPreview ==
    /\ DOWNLOAD_IMAGES_ORIGINAL = FALSE
    /\ DOWNLOAD_VIDEOS = TRUE
    /\ fs = [p \in {ProcessTarget(ImageTask)} |-> NoFile]
    /\ before = fs
    /\ PAUSE = FALSE
    /\ IdleGui
    /\ IdleWalker
    /\ IdleClassifier
    /\ IdleConverter
    /\ IdlePoller
    /\ raised = {}
    /\ replayed = <<>>
    /\ startLen = [w \in Threads |-> 0]
    /\ INCOMPLETE_TARGETS = {}
    /\ INTERRUPTED = FALSE
    /\ bytes_written = 0
    /\ pc = [w \in Threads |-> IF w = "w1" THEN "pf_lock" ELSE "idle"]
    /\ task = [w \in Threads |-> IF w = "w1" THEN ImageTask ELSE NoTask]
    /\ target = [w \in Threads |-> NoPath]
    /\ IdleLocals
    /\ faultsLeft = MaxRetries
    /\ breaksLeft = RetryBreaks
    /\ stallsLeft = MaxStalls
    /\ written = 0
    /\ results = {}
    /\ IdleCounters
    /\ IdlePlanner
    /\ mpc = "process"
    /\ image_tasks = <<>>
    /\ video_tasks = <<>>

NextPreview ==
    \/ \E w \in Threads : process_file(w)
    \/ \E w \in Threads : download_thumbnail(w)

SpecPreview == InitPreview /\ [][NextPreview]_vars

\* C8: the preview fetch stops at the first success.  When download_thumbnail
\* returns True after k - 1 failed attempts it has issued exactly k requests,
\* the last of them in its k-th round, and k is within the default ceiling;
\* the task is never counted done twice, and once process_file has returned
\* after the success it is counted done exactly once and not as failed.
C8_StopsAtFirstSuccess ==
    /\ \A w \in Threads :
         (pc[w] = "returned" /\ ret[w] = "True")
         => /\ requests[w] = failed[w] + 1
            /\ requests[w] = attempt[w]
            /\ requests[w] <= ThumbRetriesDefault
    /\ TOTALS.grand.images_done <= 1
    /\ \A w \in Threads :
         (pc[w] = "idle" /\ <<ProcessTarget(ImageTask), "True", w>> \in results)
         => /\ TOTALS.grand.images_done = 1
            /\ TOTALS.grand.images_failed = 0
            /\ pfret[w]
            /\ results = {<<ProcessTarget(ImageTask), "True", w>>}

\* Three attempts failed and the fourth succeeded; the task is recorded.
C8_Witness ==
    /\ pc["w1"] = "idle"
    /\ results = {<<ProcessTarget(ImageTask), "True", "w1">>}
    /\ (MaxRetries - faultsLeft) + (RetryBreaks - breaksLeft) = 3
    /\ TOTALS.grand.images_done = 1

\* ---------------------------------------------------------------- SpecCount
\* The image pool of main(): the two workers process
\* Cardinality(Workers) * TasksPerWorker images in preview mode against a
\* server that does not fail.

Digits == <<"1", "2", "3", "4", "5", "6", "7", "8", "9">>

CountTask(i) ==
    Node(<<"c", Digits[i]>>, <<"a", ".", "j", "p", "g">>, MimeJpeg, <<"j", "p", "g">>, <<>>,
         RootR, OutR)

CountTotal == Cardinality(Workers) * TasksPerWorker

InitCount ==
    /\ DOWNLOAD_IMAGES_ORIGINAL = FALSE
    /\ DOWNLOAD_VIDEOS = TRUE
    /\ image_tasks = [i \in 1..CountTotal |-> CountTask(i)]
    /\ video_tasks = <<>>
    /\ fs = [p \in {ProcessTarget(CountTask(i)) : i \in 1..CountTotal} |-> NoFile]
    /\ before = fs
    /\ PAUSE = FALSE
    /\ IdleGui
    /\ IdleWalker
    /\ IdleClassifier
    /\ IdleConverter
    /\ IdlePoller
    /\ raised = {}
    /\ replayed = <<>>
    /\ startLen = [w \in Threads |-> 0]
    /\ INCOMPLETE_TARGETS = {}
    /\ INTERRUPTED = FALSE
    /\ bytes_written = 0
    /\ pc = [w \in Threads |-> "idle"]
    /\ target = [w \in Threads |-> NoPath]
    /\ IdleLocals
    /\ faultsLeft = 0
    /\ breaksLeft = 0
    /\ stallsLeft = 0
    /\ written = 0
    /\ results = {}
    /\ IdleCounters
    /\ IdlePlanner
    /\ mpc = "images"
    /\ task = [w \in Threads |-> NoTask]

NextCount ==
    \/ \E w \in Workers : Pool_Take(w)
    \/ M_PoolDone
    \/ \E w \in Workers : PF_Acquire(w)
    \/ \E w \in Workers : PF_Read(w)
    \/ \E w \in Workers : PF_Write(w)
    \/ \E w \in Workers : PF_Classify(w)
    \/ \E w \in Workers : PF_Result(w)
    \/ \E w \in Workers : DT_Start(w)
    \/ \E w \in Workers : DT_Response(w)
    \/ \E w \in Workers : DT_NextChunk(w)
    \/ \E w \in Workers : DT_StreamEnds(w)
    \/ \E w \in Workers : DT_AddBytes(w)

SpecCount == InitCount /\ [][NextCount]_vars

\* The tasks thread w has completed.
CompletedBy(w) == Cardinality({r \in results : r[3] = w /\ r[2] = "True"})

\* C9: counter consistency under concurrency.  When the pool has finished,
\* the grand images_done counter, and the folder's, equal the number of tasks
\* the workers completed: Cardinality(Workers) * TasksPerWorker when every
\* task completed.
C9_DoneCounted ==
    mpc = "videos" =>
        /\ TOTALS.grand.images_done = Cardinality({r \in results : r[2] = "True"})
        /\ TOTALS.per_folder[RootR].images_done = TOTALS.grand.images_done
        /\ (\A w \in Workers : CompletedBy(w) = TasksPerWorker)
           => TOTALS.grand.images_done = CountTotal

\* Each of the workers completed TasksPerWorker tasks, and the pool has finished.
C9_Witness ==
    /\ mpc = "videos"
    /\ \A w \in Workers : CompletedBy(w) = TasksPerWorker
    /\ TOTALS.grand.images_done = CountTotal

\* C10: bytes-written accounting.  When the pool has finished, the grand
\* bytes_written counter equals the number of bytes the transfers wrote.
C10_BytesAccounted == mpc = "videos" => bytes_written = written

\* ------------------------------------------------------------------ walk
\* One walk of the remote tree under WalkRoot, consumed by the loop of
\* _scan_one, with any setting of the two switches, an operator who may
\* interrupt and a server that may refuse a listing.

WalkFaults == 1

InitWalk ==
    /\ DOWNLOAD_IMAGES_ORIGINAL \in BOOLEAN
    /\ DOWNLOAD_VIDEOS \in BOOLEAN
    /\ fs = [p \in {ProcessTarget(ImageTask)} |-> NoFile]
    /\ before = fs
    /\ PAUSE = FALSE
    /\ IdleGui
    /\ wstack = <<Frame(WalkRoot, <<>>)>>
    /\ wstatus = "running"
    /\ witem = NoItem
    /\ yielded = <<>>
    /\ listed = <<>>
    /\ lookups = <<>>
    /\ IdleClassifier
    /\ IdleConverter
    /\ IdlePoller
    /\ raised = {}
    /\ replayed = <<>>
    /\ startLen = [w \in Threads |-> 0]
    /\ INCOMPLETE_TARGETS = {}
    /\ INTERRUPTED = FALSE
    /\ bytes_written = 0
    /\ pc = [w \in Threads |-> "idle"]
    /\ task = [w \in Threads |-> NoTask]
    /\ target = [w \in Threads |-> NoPath]
    /\ IdleLocals
    /\ faultsLeft \in 0..WalkFaults
    /\ breaksLeft = 0
    /\ stallsLeft = 0
    /\ written = 0
    /\ results = {}
    /\ IdleCounters
    /\ IdlePlanner
    /\ mpc = "idle"
    /\ image_tasks = <<>>
    /\ video_tasks = <<>>

NextWalk ==
    \/ W_List
    \/ W_ListRaises
    \/ W_Item
    \/ W_PageEnd
    \/ Scan_Body
    \/ SetInterrupted

SpecWalk == InitWalk /\ [][NextWalk]_vars

\* The names and relative paths that a depth-first walk in page order meets
\* from record i of page p of a folder on.
RECURSIVE FlatFrom(_, _, _, _)
FlatFrom(folder, rel, p, i) ==
    LET pages == WalkPages(folder)
    IN  IF p > Len(pages) THEN <<>>
        ELSE IF i > Len(pages[p]) THEN FlatFrom(folder, rel, p + 1, 1)
        ELSE LET item == pages[p][i]
                 here == IF item.mimeType = FolderMime
                         THEN FlatFrom(item.id, SubRel(rel, item.name), 1, 1)
                         ELSE IF item.mimeType = ShortcutMime
                                 /\ item.shortcutDetails.targetMimeType = FolderMime
                         THEN FlatFrom(item.shortcutDetails.targetId,
                                       SubRel(rel, item.name), 1, 1)
                         ELSE << <<item.name, rel>> >>
             IN  here \o FlatFrom(folder, rel, p, i + 1)

\* C12: walker completeness.  A walk that ended with no interrupt and no
\* listing error has requested every page of every folder it can reach
\* (through folder shortcuts too) exactly once, and has yielded every
\* non-folder record of those pages once per path, depth-first in page
\* order, each with the relative path of the (file-system safe) names of the
\* folders descended.
C12_WalkComplete ==
    (wstatus = "done" /\ ~INTERRUPTED)
    => /\ [i \in DOMAIN yielded |-> <<yielded[i].name, yielded[i].rel_path>>]
            = FlatFrom(WalkRoot, <<>>, 1, 1)
       /\ {listed[i] : i \in DOMAIN listed}
            = {<<f, p>> \in {WalkRoot, FolderD, FolderE} \X (1..2) :
                 p <= Len(WalkPages(f))}
       /\ \A i, j \in DOMAIN listed : listed[i] = listed[j] => i = j

\* The whole tree has been walked: six nodes from five pages.
C12_Witness ==
    /\ wstatus = "done"
    /\ ~INTERRUPTED
    /\ Len(yielded) = 6
    /\ Len(listed) = 5
    /\ \E i \in DOMAIN yielded : yielded[i].rel_path = <<"d", "_">>
    /\ \E i \in DOMAIN yielded : yielded[i].rel_path = <<"e">>

\* C13: file shortcuts are resolved from the listing record alone.  Every node
\* yielded for a shortcut to a file carries the target's id, the shortcut's
\* own name, the target's content type and the target's size, and neither
\* walker nor planner has looked its id up with a point request.
C13_ShortcutFromRecord ==
    \A i \in DOMAIN yielded :
        yielded[i].from_shortcut
        => /\ yielded[i].id = Id2
           /\ yielded[i].name = <<"w", ".", "m", "p", "4">>
           /\ yielded[i].mimeType = MimeMp4
           /\ yielded[i].size = RemoteLen(Id2)
           /\ \A k \in DOMAIN lookups : lookups[k] # yielded[i].id

\* C16: a permanent error skips only the affected subtree.  When the listing
\* of a subfolder has been refused, every item of the root that is not in
\* that subfolder is still enumerated: a walk that the refusal has ended has
\* yielded them all.
C16_OnlySubtreeSkipped ==
    LET all == FlatFrom(WalkRoot, <<>>, 1, 1)
    IN  (wstatus = "raised" /\ witem.id # WalkRoot)
        => \A k \in DOMAIN all :
               all[k][2] # witem.rel_path
               => \E i \in DOMAIN yielded :
                      <<yielded[i].name, yielded[i].rel_path>> = all[k]

\* -------------------------------------------------------------- classify
\* One call of either copy of classify_media on any of the arguments below;
\* a missing value (None) and the empty string are the same to the function,
\* which reads them as `x or ""`.

MimePdf == <<"a", "p", "p", "l", "i", "c", "a", "t", "i", "o", "n", "/", "p", "d", "f">>

ClassifyMimes == {NoMime, MimeJpeg, MimeMp4, MimePdf, <<"x", "/", "y">>}

ClassifyNames ==
    {<<>>, <<"n">>, NameA, <<"V", ".", "M", "P", "4">>, <<"d", ".", "p", "d", "f">>,
     <<".", "j", "p", "g">>}

ClassifyExts == {NoExt, <<"j", "p", "g">>, <<"M", "P", "4">>, <<"p", "d", "f">>, <<"x">>}

InitClassify ==
    /\ DOWNLOAD_IMAGES_ORIGINAL = FALSE
    /\ DOWNLOAD_VIDEOS = TRUE
    /\ fs = [p \in {ProcessTarget(ImageTask)} |-> NoFile]
    /\ before = fs
    /\ PAUSE = FALSE
    /\ IdleGui
    /\ IdleWalker
    /\ cin \in [mime : ClassifyMimes, name : ClassifyNames, fext : ClassifyExts]
    /\ cout = NoKind
    /\ IdleConverter
    /\ IdlePoller
    /\ raised = {}
    /\ replayed = <<>>
    /\ startLen = [w \in Threads |-> 0]
    /\ INCOMPLETE_TARGETS = {}
    /\ INTERRUPTED = FALSE
    /\ bytes_written = 0
    /\ pc = [w \in Threads |-> "idle"]
    /\ task = [w \in Threads |-> NoTask]
    /\ target = [w \in Threads |-> NoPath]
    /\ IdleLocals
    /\ faultsLeft = 0
    /\ breaksLeft = 0
    /\ stallsLeft = 0
    /\ written = 0
    /\ results = {}
    /\ IdleCounters
    /\ IdlePlanner
    /\ mpc = "idle"
    /\ image_tasks = <<>>
    /\ video_tasks = <<>>

NextClassify ==
    \/ Classify
    \/ ClassifyMono

SpecClassify == InitClassify /\ [][NextClassify]_vars

\* C14: media classifier.  Whatever the arguments, missing and empty ones
\* included, classify_media returns one of image, video, document ("data" in
\* the code) and none, and a content type that begins with image/ or video/
\* decides the kind whatever the extension says.
C14_Classifier ==
    cout # NoKind
    => /\ cout.kind \in {"image", "video", "data", "none"}
       /\ StartsWith(cin.mime, <<"i", "m", "a", "g", "e", "/">>) => cout.kind = "image"
       /\ StartsWith(cin.mime, <<"v", "i", "d", "e", "o", "/">>) => cout.kind = "video"

\* ------------------------------------------------------------------ task
\* main() on two images (previews) and a video against a server that answers
\* every request, on a disk where making a task's directory may fail.

InitTask ==
    /\ DOWNLOAD_IMAGES_ORIGINAL = FALSE
    /\ DOWNLOAD_VIDEOS = TRUE
    /\ image_tasks = <<ImageTask, ImageTask2>>
    /\ video_tasks = <<VideoTask>>
    /\ fs = [p \in RunTargets |-> NoFile]
    /\ before = fs
    /\ PAUSE = FALSE
    /\ IdleGui
    /\ IdleWalker
    /\ IdleClassifier
    /\ IdleConverter
    /\ IdlePoller
    /\ raised = {}
    /\ replayed = <<>>
    /\ startLen = [w \in Threads |-> 0]
    /\ INCOMPLETE_TARGETS = {}
    /\ INTERRUPTED = FALSE
    /\ bytes_written = 0
    /\ pc = [w \in Threads |-> "idle"]
    /\ target = [w \in Threads |-> NoPath]
    /\ IdleLocals
    /\ faultsLeft = 0
    /\ breaksLeft = 0
    /\ stallsLeft = 0
    /\ written = 0
    /\ results = {}
    /\ IdleCounters
    /\ IdlePlanner
    /\ mpc = "images"
    /\ task = [w \in Threads |-> NoTask]

NextTask ==
    \/ \E w \in Workers : Pool_Take(w)
    \/ M_PoolDone
    \/ M_VideoLoop
    \/ M_Cleanup
    \/ \E w \in Threads : PF_Acquire(w)
    \/ \E w \in Threads : PF_Read(w)
    \/ \E w \in Threads : PF_Write(w)
    \/ \E w \in Threads : PF_Classify(w)
    \/ \E w \in Threads : PF_Raises(w)
    \/ \E w \in Threads : PF_Result(w)
    \/ \E w \in Threads : DT_Start(w)
    \/ \E w \in Threads : DT_Response(w)
    \/ \E w \in Threads : DT_NextChunk(w)
    \/ \E w \in Threads : DT_StreamEnds(w)
    \/ \E w \in Threads : DT_AddBytes(w)
    \/ \E w \in Threads : DF_Start(w)
    \/ \E w \in Threads : DF_Meta(w)
    \/ \E w \in Threads : DF_Stat(w)
    \/ \E w \in Threads : DF_Top(w)
    \/ \E w \in Threads : DF_Response(w)
    \/ \E w \in Threads : DF_NextChunk(w)
    \/ \E w \in Threads : DF_AddBytes(w)
    \/ \E w \in Threads : DF_StreamEnds(w)
    \/ \E w \in Threads : DF_After(w)

SpecTask == InitTask /\ [][NextTask]_vars

\* C17: task-level exception isolation.  When main() has returned, every task
\* of the run was dispatched and processed whatever its neighbours did, and
\* the tasks whose processing raised are accounted as failed: one unit in the
\* failed counter of its kind for each of them, and done for all the others.
C17_RaisedCountedFailed ==
    LET RaisedOf(k) == Cardinality({r \in raised : ProcessKind(r[1]) = k})
    IN  mpc = "done"
        => /\ TOTALS.grand.scanned = 3
           /\ TOTALS.grand.images_failed = RaisedOf("image")
           /\ TOTALS.grand.videos_failed = RaisedOf("video")
           /\ TOTALS.grand.images_done = 2 - RaisedOf("image")
           /\ TOTALS.grand.videos_done = 1 - RaisedOf("video")

\* ------------------------------------------------------------------ fail
\* main() on two images (previews) and a video against a server that may
\* refuse up to FailFaults requests, enough to use up the attempts of one
\* transfer.

FailFaults == 10

InitFail ==
    /\ DOWNLOAD_IMAGES_ORIGINAL = FALSE
    /\ DOWNLOAD_VIDEOS = TRUE
    /\ image_tasks = <<ImageTask, ImageTask2>>
    /\ video_tasks = <<VideoTask>>
    /\ fs = [p \in RunTargets |-> NoFile]
    /\ before = fs
    /\ PAUSE = FALSE
    /\ IdleGui
    /\ IdleWalker
    /\ IdleClassifier
    /\ IdleConverter
    /\ IdlePoller
    /\ raised = {}
    /\ replayed = <<>>
    /\ startLen = [w \in Threads |-> 0]
    /\ INCOMPLETE_TARGETS = {}
    /\ INTERRUPTED = FALSE
    /\ bytes_written = 0
    /\ pc = [w \in Threads |-> "idle"]
    /\ target = [w \in Threads |-> NoPath]
    /\ IdleLocals
    /\ faultsLeft = FailFaults
    /\ breaksLeft = 0
    /\ stallsLeft = 0
    /\ written = 0
    /\ results = {}
    /\ IdleCounters
    /\ IdlePlanner
    /\ mpc = "images"
    /\ task = [w \in Threads |-> NoTask]

NextFail ==
    \/ \E w \in Workers : Pool_Take(w)
    \/ M_PoolDone
    \/ M_VideoLoop
    \/ M_Cleanup
    \/ \E w \in Threads : process_file(w)
    \/ \E w \in Threads : DT_Start(w)
    \/ \E w \in Threads : DT_RequestFails(w)
    \/ \E w \in Threads : DT_Response(w)
    \/ \E w \in Threads : DT_NextChunk(w)
    \/ \E w \in Threads : DT_StreamEnds(w)
    \/ \E w \in Threads : DT_AddBytes(w)
    \/ \E w \in Threads : DF_Start(w)
    \/ \E w \in Threads : DF_Meta(w)
    \/ \E w \in Threads : DF_Stat(w)
    \/ \E w \in Threads : DF_Top(w)
    \/ \E w \in Threads : DF_RequestFails(w)
    \/ \E w \in Threads : DF_Response(w)
    \/ \E w \in Threads : DF_NextChunk(w)
    \/ \E w \in Threads : DF_AddBytes(w)
    \/ \E w \in Threads : DF_StreamEnds(w)
    \/ \E w \in Threads : DF_After(w)
    \/ \E w \in Threads : DF_ProbeAnswers(w)
    \/ \E w \in Threads : DF_ProbeRaises(w)
    \/ \E w \in Threads : DF_ProbeErrorStatus(w)

SpecFail == InitFail /\ [][NextFail]_vars

\* The tasks of the run whose transfer returned failure.
FailedTasks ==
    {t \in {ImageTask, ImageTask2, VideoTask} :
       \E r \in results : r[1] = ProcessTarget(t) /\ r[2] = "False"}

\* C18: failure escalation.  A transfer that used up its attempts returned
\* False (nothing was raised), and when main() has returned each such task is
\* counted once in the failed counter of its kind, grand and per folder, and
\* has exactly one descriptor in the failure list, with its id, its name, its
\* kind and its target path; every task of the run was processed.
C18_FailureRecorded ==
    LET FailedOf(k) == Cardinality({t \in FailedTasks : ProcessKind(t) = k})
    IN  /\ raised = {}
        /\ \A r \in results : r[2] \in {"True", "False"}
        /\ mpc = "done"
           => /\ TOTALS.grand.scanned = 3
              /\ TOTALS.grand.images_failed = FailedOf("image")
              /\ TOTALS.grand.videos_failed = FailedOf("video")
              /\ TOTALS.per_folder[RootR].images_failed = FailedOf("image")
              /\ TOTALS.per_folder[RootR].videos_failed = FailedOf("video")
              /\ Len(FAILED_ITEMS) = Cardinality(FailedTasks)
              /\ \A t \in FailedTasks :
                    \E i \in DOMAIN FAILED_ITEMS :
                        /\ FAILED_ITEMS[i].id = t.id
                        /\ FAILED_ITEMS[i].name = t.name
                        /\ FAILED_ITEMS[i].kind = ProcessKind(t)
                        /\ FAILED_ITEMS[i].target = ProcessTarget(t)

\* The first image failed for good after ten refused requests; the second
\* image and the video were downloaded after it.
C18_Witness ==
    /\ mpc = "done"
    /\ FailedTasks = {ImageTask}
    /\ TOTALS.grand.images_failed = 1
    /\ TOTALS.grand.images_done = 1
    /\ TOTALS.grand.videos_done = 1
    /\ Len(FAILED_ITEMS) = 1

\* ---------------------------------------------------------------- replay
\* main() on one image and a video against a server that may refuse up to
\* FailFaults requests, and then main() once more on the failures of that
\* run.  The image has an extension in its name or none; previews or
\* originals are fetched.

NoExtTask == Node(Id3, <<"d">>, MimeJpeg, NoExt, <<"s", "u", "b">>, RootR, OutR)

ReplayRuns == {ImageTask, NoExtTask} \X BOOLEAN

\* The paths the tasks, and their descriptors given back as tasks, are
\* written to.
ReplayTargets ==
    LET tasks == {ImageTask, NoExtTask, VideoTask}
        again == {DirectTask([id |-> t.id, name |-> safe_filename(t.name),
                              root_name |-> t.root_name, folder_out |-> OutSubdir(t)]) :
                    t \in tasks}
    IN  {ProcessTarget(t) : t \in tasks \cup again} \ {NoPath}

InitReplay ==
    /\ \E s \in ReplayRuns :
         /\ image_tasks = <<s[1]>>
         /\ DOWNLOAD_IMAGES_ORIGINAL = s[2]
    /\ DOWNLOAD_VIDEOS = TRUE
    /\ video_tasks = <<VideoTask>>
    /\ fs = [p \in ReplayTargets |-> NoFile]
    /\ before = fs
    /\ PAUSE = FALSE
    /\ IdleGui
    /\ IdleWalker
    /\ IdleClassifier
    /\ IdleConverter
    /\ IdlePoller
    /\ raised = {}
    /\ replayed = <<>>
    /\ startLen = [w \in Threads |-> 0]
    /\ INCOMPLETE_TARGETS = {}
    /\ INTERRUPTED = FALSE
    /\ bytes_written = 0
    /\ pc = [w \in Threads |-> "idle"]
    /\ target = [w \in Threads |-> NoPath]
    /\ IdleLocals
    /\ faultsLeft = FailFaults
    /\ breaksLeft = 0
    /\ stallsLeft = 0
    /\ written = 0
    /\ results = {}
    /\ IdleCounters
    /\ IdlePlanner
    /\ mpc = "images"
    /\ task = [w \in Threads |-> NoTask]

NextReplay ==
    \/ \E w \in Workers : Pool_Take(w)
    \/ M_PoolDone
    \/ M_VideoLoop
    \/ M_Cleanup
    \/ M_Replay
    \/ \E w \in Threads : process_file(w)
    \/ \E w \in Threads : DT_Start(w)
    \/ \E w \in Threads : DT_RequestFails(w)
    \/ \E w \in Threads : DT_Response(w)
    \/ \E w \in Threads : DT_NextChunk(w)
    \/ \E w \in Threads : DT_StreamEnds(w)
    \/ \E w \in Threads : DT_AddBytes(w)
    \/ \E w \in Threads : DF_Start(w)
    \/ \E w \in Threads : DF_Meta(w)
    \/ \E w \in Threads : DF_Stat(w)
    \/ \E w \in Threads : DF_Top(w)
    \/ \E w \in Threads : DF_RequestFails(w)
    \/ \E w \in Threads : DF_Response(w)
    \/ \E w \in Threads : DF_NextChunk(w)
    \/ \E w \in Threads : DF_AddBytes(w)
    \/ \E w \in Threads : DF_StreamEnds(w)
    \/ \E w \in Threads : DF_After(w)
    \/ \E w \in Threads : DF_ProbeAnswers(w)
    \/ \E w \in Threads : DF_ProbeRaises(w)
    \/ \E w \in Threads : DF_ProbeErrorStatus(w)

SpecReplay == InitReplay /\ [][NextReplay]_vars

\* C19: retry-list replay.  When the run on the recorded failure descriptors
\* has returned, no pre-scan has run, every descriptor was classified as the
\* kind it failed as and was attempted again on the target path recorded in
\* it, and nothing else was attempted.
C19_ReplaySameTarget ==
    (mpc = "done" /\ replayed # <<>>)
    => /\ plans = <<>> /\ ppc = "idle"
       /\ \A i \in DOMAIN replayed :
             /\ ProcessKind(DirectTask(replayed[i])) = replayed[i].kind
             /\ \E r \in results : r[1] = replayed[i].target
       /\ \A r \in results : \E i \in DOMAIN replayed : r[1] = replayed[i].target


\* ------------------------------------------------ interrupt and pause

\* wait_if_paused returns: `while PAUSE and not INTERRUPTED: sleep(0.2)`
\* (listing.py, lines 58-61; drive_fetch_resilient.py, lines 387-391).  The
\* thread that calls it stays where it is for as long as this is false.
WaitIfPaused == ~PAUSE \/ INTERRUPTED

\* main() is running: prescan_tasks has been entered and main() has not
\* returned.
RunInProgress == mpc # "done" /\ ~(mpc = "prescan" /\ ppc = "idle" /\ plans = <<>>)

\* The GUI's pause button during a run: PAUSE = not PAUSE.
TogglePause ==
    /\ RunInProgress
    /\ PAUSE' = ~PAUSE
    /\ UNCHANGED <<DOWNLOAD_IMAGES_ORIGINAL, DOWNLOAD_VIDEOS, before, walkVars, classVars, convVars, pollVars, guiVars,
                   raised, replayed>>
    /\ UNCHANGED <<engineVars, counterVars, mainVars, planVars>>

\* on_sigint / the GUI's cancel during a run.
Run_Interrupt == RunInProgress /\ SetInterrupted

\* main() calls prescan_tasks (main.py, line 119), once.
Run_Prescan == mpc = "prescan" /\ plans = <<>> /\ P_Begin

\* The walker's `if INTERRUPTED: return; wait_if_paused()` before each item
\* (listing.py, lines 91-93) and the consumer's `if INTERRUPTED: break`
\* (prescan.py, lines 47-48): a walker woken by the interrupt yields its item
\* and the consumer breaks, which is P_ScanItem's interrupted branch.
Walk_Paused(w) == WaitIfPaused /\ P_ScanItem(w)

\* main.py, lines 121-129: the tasks prescan_tasks returned are partitioned
\* into videos and everything else.
M_Partition ==
    /\ mpc = "prescan"
    /\ ppc = "idle"
    /\ plans # <<>>
    /\ image_tasks' = SelectSeq(tasks_all, NotVideoTask)
    /\ video_tasks' = SelectSeq(tasks_all, IsVideoTask)
    /\ mpc' = "images"
    /\ UNCHANGED <<cfgVars, planVars, task, counterVars, engineVars>>

\* _proc_image, lines 150-152: `if dfr.INTERRUPTED: return False`; otherwise
\* the worker goes on to wait_if_paused().
PI_Check(w) ==
    /\ mpc = "images"
    /\ pc[w] = "idle"
    /\ image_tasks # <<>>
    /\ image_tasks' = Tail(image_tasks)
    /\ IF INTERRUPTED
       THEN UNCHANGED <<pc, task>>
       ELSE /\ task' = Set(task, w, Head(image_tasks))
            /\ pc' = Set(pc, w, "pi_wait")
    /\ UNCHANGED <<cfgVars, planVars, mpc, video_tasks, counterVars, engineRest, target>>

\* _proc_image, lines 153-159: wait_if_paused() has returned and process_file
\* is called.
PI_Paused(w) ==
    /\ pc[w] = "pi_wait"
    /\ WaitIfPaused
    /\ op' = Set(op, w, "scanned")
    /\ pc' = Set(pc, w, "pf_lock")
    /\ UNCHANGED <<cfgVars, planVars, mainVars, TOTALS, FAILED_ITEMS, LOCK, ctmp, pfret,
                   engineRest, target>>

\* The video loop, lines 175-177: `for f in video_tasks: if INTERRUPTED: break`.
MV_Check ==
    /\ mpc = "videos"
    /\ pc["main"] = "idle"
    /\ IF video_tasks = <<>> \/ INTERRUPTED
       THEN /\ mpc' = "cleanup"
            /\ UNCHANGED <<video_tasks, pc, task>>
       ELSE /\ video_tasks' = Tail(video_tasks)
            /\ task' = Set(task, "main", Head(video_tasks))
            /\ pc' = Set(pc, "main", "mv_wait")
            /\ UNCHANGED mpc
    /\ UNCHANGED <<cfgVars, planVars, image_tasks, counterVars, engineRest, target>>

\* The video loop, lines 178-180: wait_if_paused() has returned and
\* process_file is called.
MV_Paused ==
    /\ pc["main"] = "mv_wait"
    /\ WaitIfPaused
    /\ op' = Set(op, "main", "scanned")
    /\ pc' = Set(pc, "main", "pf_lock")
    /\ UNCHANGED <<cfgVars, planVars, mainVars, TOTALS, FAILED_ITEMS, LOCK, ctmp, pfret,
                   engineRest, target>>

\* download_file_resumable, lines 99-101: `while True: if INTERRUPTED: return
\* False`; otherwise on to wait_if_paused().
DF_TopCheck(w) ==
    /\ pc[w] = "df_top"
    /\ IF INTERRUPTED
       THEN Return(w, "False")
       ELSE /\ pc' = Set(pc, w, "df_top_wait")
            /\ UNCHANGED <<ret, results>>
    /\ UNCHANGED <<notEngine, startLen, fs, INCOMPLETE_TARGETS, INTERRUPTED, bytes_written,
                   target, total_size, downloaded, mode, headers, attempt, retries, impl, body,
                   fpos, tmp, faultsLeft, breaksLeft, stallsLeft, written, firstRange, requests,
                   failed>>

\* Lines 102-104: wait_if_paused() has returned; headers = Range from
\* downloaded; for attempt in range(1, 9).
DF_TopPaused(w) ==
    /\ pc[w] = "df_top_wait"
    /\ WaitIfPaused
    /\ headers' = Set(headers, w, downloaded[w])
    /\ attempt' = Set(attempt, w, 1)
    /\ pc' = Set(pc, w, "df_req")
    /\ UNCHANGED <<notEngine, startLen, fs, INCOMPLETE_TARGETS, INTERRUPTED, bytes_written,
                   target, total_size, downloaded, mode, retries, impl, body, fpos, ret,
                   results, tmp, faultsLeft, breaksLeft, stallsLeft, written, firstRange,
                   requests, failed>>

\* Lines 113-115: `for chunk in r.iter_content(...): if INTERRUPTED: return
\* False`; otherwise on to wait_if_paused() with the chunk in hand.
DF_ChunkCheck(w) ==
    /\ pc[w] = "df_stream"
    /\ body[w] # <<>>
    /\ IF INTERRUPTED
       THEN /\ body' = Set(body, w, Tail(body[w]))
            /\ Return(w, "False")
       ELSE /\ pc' = Set(pc, w, "df_chunk_wait")
            /\ UNCHANGED <<body, ret, results>>
    /\ UNCHANGED <<notEngine, startLen, fs, INCOMPLETE_TARGETS, INTERRUPTED, bytes_written,
                   target, total_size, downloaded, mode, headers, attempt, retries, impl, fpos,
                   tmp, faultsLeft, breaksLeft, stallsLeft, written, firstRange, requests,
                   failed>>

\* Lines 116-118: wait_if_paused() has returned; f.write(chunk); downloaded +=
\* len(chunk); and the read half of TOTALS.grand.bytes_written += len(chunk).
DF_ChunkPaused(w) ==
    /\ pc[w] = "df_chunk_wait"
    /\ WaitIfPaused
    /\ body' = Set(body, w, Tail(body[w]))
    /\ fs' = [fs EXCEPT ![target[w]] =
                IF ~Exists(target[w]) THEN <<Head(body[w])>>
                ELSE IF mode[w] = "ab" THEN Append(@, Head(body[w]))
                ELSE WriteAt(@, fpos[w], Head(body[w]))]
    /\ fpos' = Set(fpos, w, fpos[w] + 1)
    /\ downloaded' = Set(downloaded, w, downloaded[w] + 1)
    /\ tmp' = Set(tmp, w, bytes_written)
    /\ written' = written + 1
    /\ pc' = Set(pc, w, "df_bytes")
    /\ UNCHANGED <<notEngine, startLen, INCOMPLETE_TARGETS, INTERRUPTED, bytes_written, target,
                   total_size, mode, headers, attempt, retries, impl, ret, results, faultsLeft,
                   breaksLeft, stallsLeft, firstRange, requests, failed>>

\* Line 146: wait_if_paused() before the probe.
DF_ProbePaused(w) == WaitIfPaused /\ DF_ProbeAnswers(w)

\* One step of the program: of main(), of a pre-scan or pool worker, or of a
\* transfer.
RunStep ==
    \/ Run_Prescan
    \/ \E w \in Workers : P_Take(w)
    \/ \E w \in Workers : Walk_Paused(w)
    \/ \E w \in Workers : P_Summary(w)
    \/ P_End
    \/ M_Partition
    \/ \E w \in Workers : PI_Check(w)
    \/ \E w \in Workers : PI_Paused(w)
    \/ M_PoolDone
    \/ MV_Check
    \/ MV_Paused
    \/ M_Cleanup
    \/ \E w \in Threads : process_file(w)
    \/ \E w \in Threads : DT_Start(w)
    \/ \E w \in Threads : DT_Response(w)
    \/ \E w \in Threads : DT_NextChunk(w)
    \/ \E w \in Threads : DT_StreamEnds(w)
    \/ \E w \in Threads : DT_AddBytes(w)
    \/ \E w \in Threads : DF_Start(w)
    \/ \E w \in Threads : DF_Meta(w)
    \/ \E w \in Threads : DF_Stat(w)
    \/ \E w \in Threads : DF_TopCheck(w)
    \/ \E w \in Threads : DF_TopPaused(w)
    \/ \E w \in Threads : DF_Response(w)
    \/ \E w \in Threads : DF_ChunkCheck(w)
    \/ \E w \in Threads : DF_ChunkPaused(w)
    \/ \E w \in Threads : DF_AddBytes(w)
    \/ \E w \in Threads : DF_StreamEnds(w)
    \/ \E w \in Threads : DF_After(w)
    \/ \E w \in Threads : DF_ProbePaused(w)

\* The runs examined: previews or originals, of two roots of which one holds
\* an image and a video, every request answered.
InitStop ==
    /\ DOWNLOAD_IMAGES_ORIGINAL \in BOOLEAN
    /\ DOWNLOAD_VIDEOS = TRUE
    /\ remote = Tree(<<LeafA, LeafV>>, <<>>)
    /\ fs = [p \in PlanPaths |-> NoFile]
    /\ before = fs
    /\ PAUSE = FALSE
    /\ IdleGui
    /\ IdleWalker
    /\ IdleClassifier
    /\ IdleConverter
    /\ IdlePoller
    /\ raised = {}
    /\ replayed = <<>>
    /\ EXPECTED_IMAGES = 0
    /\ EXPECTED_VIDEOS = 0
    /\ ALREADY_HAVE_IMAGES = 0
    /\ ALREADY_HAVE_VIDEOS = 0
    /\ EXPECTED_TOTAL_BYTES = 0
    /\ LINK_SUMMARIES = <<>>
    /\ ppc = "idle"
    /\ urls = <<>>
    /\ scan = [w \in Workers |-> NoScan]
    /\ tasks_all = <<>>
    /\ plans = <<>>
    /\ planned = {}
    /\ fetched = {}
    /\ same = TRUE
    /\ startLen = [w \in Threads |-> 0]
    /\ INCOMPLETE_TARGETS = {}
    /\ INTERRUPTED = FALSE
    /\ bytes_written = 0
    /\ pc = [w \in Threads |-> "idle"]
    /\ target = [w \in Threads |-> NoPath]
    /\ IdleLocals
    /\ faultsLeft = 0
    /\ breaksLeft = 0
    /\ stallsLeft = 0
    /\ written = 0
    /\ results = {}
    /\ IdleCounters
    /\ mpc = "prescan"
    /\ image_tasks = <<>>
    /\ video_tasks = <<>>
    /\ task = [w \in Threads |-> NoTask]

NextStop ==
    \/ RunStep
    \/ TogglePause
    \/ Run_Interrupt

\* Every network call returns and the scheduler runs a thread that can run:
\* the program does not stand still for ever while one of its steps can be
\* taken.
SpecStop == InitStop /\ [][NextStop]_vars /\ WF_vars(RunStep)


\* Thread w stands at a checkpoint with the flag set: at the boundary of the
\* chunk loop of a preview transfer with a chunk still to come, or in
\* wait_if_paused before its task or before its chunk, which returns because
\* it reads INTERRUPTED as set.
AtCheckpoint(w) ==
    /\ INTERRUPTED
    /\ \/ pc[w] = "dt_stream" /\ body[w] # <<>>
       \/ PAUSE /\ pc[w] \in {"pi_wait", "mv_wait", "df_chunk_wait"}

\* From there the thread starts no task and writes no chunk.
StopsAtCheckpoint ==
    [][\A w \in Threads : AtCheckpoint(w) => pc'[w] # "pf_lock" /\ fpos'[w] = fpos[w]]_vars

\* Once the flag is set main() reaches its cleanup and returns.
InterruptEnds == INTERRUPTED ~> (mpc = "done")

\* C20: interrupt leads to termination.  Once INTERRUPTED is set during a run
\* (in the pre-scan, in a download phase, or while the run is paused), a
\* thread that comes to a checkpoint (task dispatch, chunk write) starts no
\* task and writes no chunk, and main() eventually reaches its cleanup and
\* returns, every network call returning.
C20_InterruptStops == StopsAtCheckpoint /\ InterruptEnds


\* ------------------------------------------------------------- the GUI

\* Everything but the GUI's variables and the INTERRUPTED flag.
guiRest == <<settings, walkVars, classVars, convVars, pollVars, raised, replayed, counterVars, mainVars, planVars,
             fs, INCOMPLETE_TARGETS, bytes_written, pc, target, total_size, downloaded, mode,
             headers, attempt, retries, impl, body, fpos, ret, tmp, faultsLeft, breaksLeft,
             stallsLeft, startLen, written, results, firstRange, requests, failed>>

\* The pre-scan that the next press of Start begins.
NextScan == CHOOSE g \in Scans : gscan[g].pc = "none" /\ \A h \in Scans : h < g => gscan[h].pc # "none"

\* App.start (main_app.py, lines 433-506): Start is disabled and Cancel
\* enabled, create_prescan_window opens the preview with its Start Download
\* button disabled and self._prescan_tasks = [], and the run_prescan thread is
\* started.
U_Start ==
    /\ start_btn = "normal"
    /\ \E g \in Scans : gscan[g].pc = "none"
    /\ start_btn' = "disabled"
    /\ cancel_btn' = "normal"
    /\ prescan_win' = [id |-> NextScan, exists |-> TRUE]
    /\ prescan_start_button' = "disabled"
    /\ prescan_tasks' = [gen |-> 0, n |-> 0]
    /\ gscan' = [gscan EXCEPT ![NextScan].pc = "begin"]
    /\ UNCHANGED <<worker, INTERRUPTED, guiRest>>

\* on_cancel and on_window_close of the preview (main_app.py, lines 651-668
\* and 706-723): INTERRUPTED = True, the window is destroyed, Start is
\* enabled and Cancel disabled.
U_PreviewCancel ==
    /\ prescan_win.exists
    /\ INTERRUPTED' = TRUE
    /\ prescan_win' = [prescan_win EXCEPT !.exists = FALSE]
    /\ start_btn' = "normal"
    /\ cancel_btn' = "disabled"
    /\ UNCHANGED <<prescan_start_button, prescan_tasks, gscan, worker, guiRest>>

\* App.cancel, the main window's Cancel button (main_app.py, lines 528-533);
\* the preview window holds the grab while it exists.
U_Cancel ==
    /\ cancel_btn = "normal"
    /\ ~prescan_win.exists
    /\ ~INTERRUPTED
    /\ INTERRUPTED' = TRUE
    /\ UNCHANGED <<guiVars, guiRest>>

\* on_start of the preview (main_app.py, lines 725-752): with no tasks it is
\* on_cancel; otherwise set_direct_tasks, the window is destroyed and the
\* run_worker thread is started.
U_PreviewStart ==
    /\ prescan_win.exists
    /\ prescan_start_button = "normal"
    /\ worker = "none"
    /\ prescan_win' = [prescan_win EXCEPT !.exists = FALSE]
    /\ IF prescan_tasks.n = 0
       THEN /\ INTERRUPTED' = TRUE
            /\ start_btn' = "normal"
            /\ cancel_btn' = "disabled"
            /\ UNCHANGED worker
       ELSE /\ worker' = "begin"
            /\ UNCHANGED <<INTERRUPTED, start_btn, cancel_btn>>
    /\ UNCHANGED <<prescan_start_button, prescan_tasks, gscan, guiRest>>

\* run_prescan, lines 340-345: app_ref.cancel_btn.configure(state="normal").
G_Begin(g) ==
    /\ gscan[g].pc = "begin"
    /\ cancel_btn' = "normal"
    /\ gscan' = [gscan EXCEPT ![g].pc = "reset"]
    /\ UNCHANGED <<start_btn, prescan_win, prescan_start_button, prescan_tasks, worker,
                   INTERRUPTED, guiRest>>

\* run_prescan, lines 396-397: dfr.INTERRUPTED = False; then prescan_tasks is
\* entered with the roots to submit.
G_Reset(g) ==
    /\ gscan[g].pc = "reset"
    /\ INTERRUPTED' = FALSE
    /\ gscan' = [gscan EXCEPT ![g] = [pc |-> "scanning", todo |-> GuiRoots, busy |-> 0,
                                      full |-> 0]]
    /\ UNCHANGED <<start_btn, cancel_btn, prescan_win, prescan_start_button, prescan_tasks,
                   worker, guiRest>>

\* prescan_tasks, lines 179-182: for url in urls: if INTERRUPTED: break;
\* submit(_scan_one, url).
G_Submit(g) ==
    /\ gscan[g].pc = "scanning"
    /\ gscan[g].todo > 0
    /\ gscan' = [gscan EXCEPT ![g].todo = IF INTERRUPTED THEN 0 ELSE @ - 1,
                              ![g].busy = IF INTERRUPTED THEN @ ELSE @ + 1]
    /\ UNCHANGED <<start_btn, cancel_btn, prescan_win, prescan_start_button, prescan_tasks,
                   worker, INTERRUPTED, guiRest>>

\* _scan_one of one root (prescan.py, lines 20-23 and 46-48): it returns
\* early when it finds INTERRUPTED set, otherwise the root is scanned whole.
G_Scan(g) ==
    /\ gscan[g].pc = "scanning"
    /\ gscan[g].busy > 0
    /\ gscan' = [gscan EXCEPT ![g].busy = @ - 1,
                              ![g].full = IF INTERRUPTED THEN @ ELSE @ + 1]
    /\ UNCHANGED <<start_btn, cancel_btn, prescan_win, prescan_start_button, prescan_tasks,
                   worker, INTERRUPTED, guiRest>>

\* prescan_tasks returns and run_prescan posts _finish to the Tk main thread
\* (workers.py, lines 461-490).
G_Return(g) ==
    /\ gscan[g].pc = "scanning"
    /\ gscan[g].todo = 0
    /\ gscan[g].busy = 0
    /\ gscan' = [gscan EXCEPT ![g].pc = "posted"]
    /\ UNCHANGED <<start_btn, cancel_btn, prescan_win, prescan_start_button, prescan_tasks,
                   worker, INTERRUPTED, guiRest>>

\* finish_prescan(tasks, total_bytes) on the main thread (main_app.py, lines
\* 856-908): the tasks are kept; when the preview window no longer exists
\* Start is enabled and Cancel disabled, otherwise the window's Start
\* Download button is enabled.
G_Finish(g) ==
    /\ gscan[g].pc = "posted"
    /\ gscan' = [gscan EXCEPT ![g].pc = "finished"]
    /\ prescan_tasks' = [gen |-> g, n |-> gscan[g].full]
    /\ IF prescan_win.exists
       THEN /\ prescan_start_button' = "normal"
            /\ UNCHANGED <<start_btn, cancel_btn>>
       ELSE /\ start_btn' = "normal"
            /\ cancel_btn' = "disabled"
            /\ UNCHANGED prescan_start_button
    /\ UNCHANGED <<prescan_win, worker, INTERRUPTED, guiRest>>

\* run_worker, lines 51-58: btn.configure(state="disabled"); Cancel enabled.
D_Begin ==
    /\ worker = "begin"
    /\ start_btn' = "disabled"
    /\ cancel_btn' = "normal"
    /\ worker' = "main"
    /\ UNCHANGED <<prescan_win, prescan_start_button, prescan_tasks, gscan, INTERRUPTED,
                   guiRest>>

\* dfr_main.main() is entered (workers.py, line 168): dfr.INTERRUPTED = False
\* (main.py, line 27).
D_Main ==
    /\ worker = "main"
    /\ INTERRUPTED' = FALSE
    /\ worker' = "running"
    /\ UNCHANGED <<start_btn, cancel_btn, prescan_win, prescan_start_button, prescan_tasks,
                   gscan, guiRest>>

\* main() has returned; run_worker's finally (workers.py, lines 210-216):
\* Cancel disabled, Start enabled.
D_End ==
    /\ worker = "running"
    /\ worker' = "finished"
    /\ cancel_btn' = "disabled"
    /\ start_btn' = "normal"
    /\ UNCHANGED <<prescan_win, prescan_start_button, prescan_tasks, gscan, INTERRUPTED,
                   guiRest>>

\* A step of a thread of the program or of a callback posted to Tk's main
\* loop.
GuiProgram ==
    \/ \E g \in Scans : G_Begin(g)
    \/ \E g \in Scans : G_Reset(g)
    \/ \E g \in Scans : G_Submit(g)
    \/ \E g \in Scans : G_Scan(g)
    \/ \E g \in Scans : G_Return(g)
    \/ \E g \in Scans : G_Finish(g)
    \/ D_Begin
    \/ D_Main
    \/ D_End

\* What the user does.
GuiUser ==
    \/ U_Start
    \/ U_PreviewCancel
    \/ U_Cancel
    \/ U_PreviewStart

InitGui ==
    /\ DOWNLOAD_IMAGES_ORIGINAL = FALSE
    /\ DOWNLOAD_VIDEOS = TRUE
    /\ fs = [p \in RunTargets |-> NoFile]
    /\ before = fs
    /\ PAUSE = FALSE
    /\ IdleGui
    /\ IdleWalker
    /\ IdleClassifier
    /\ IdleConverter
    /\ IdlePoller
    /\ raised = {}
    /\ replayed = <<>>
    /\ startLen = [w \in Threads |-> 0]
    /\ INCOMPLETE_TARGETS = {}
    /\ INTERRUPTED = FALSE
    /\ bytes_written = 0
    /\ pc = [w \in Threads |-> "idle"]
    /\ target = [w \in Threads |-> NoPath]
    /\ IdleLocals
    /\ faultsLeft = 0
    /\ breaksLeft = 0
    /\ stallsLeft = 0
    /\ written = 0
    /\ results = {}
    /\ IdleCounters
    /\ IdlePlanner
    /\ mpc = "images"
    /\ image_tasks = <<>>
    /\ video_tasks = <<>>
    /\ task = [w \in Threads |-> NoTask]

NextGui == GuiProgram \/ GuiUser

\* The threads run and Tk's main loop runs the callbacks posted to it; the
\* user may do nothing.
SpecGui == InitGui /\ [][NextGui]_vars /\ WF_vars(GuiProgram)

\* A worker of a run is active: a pre-scan between its reset of the flag and
\* the return of prescan_tasks, or main() between its reset and its return.
ScanActive(g) == gscan[g].pc = "scanning"

DownloadActive == worker = "running"

\* C21: the interrupted flag is monotonic within a run.  INTERRUPTED goes
\* from set to clear only when no scan worker and no download worker is
\* active: only the reset that begins a new run clears it.
C21_FlagMonotonic ==
    [][(INTERRUPTED /\ ~INTERRUPTED')
         => (\A g \in Scans : ~ScanActive(g)) /\ ~DownloadActive]_vars


\* ---------------------------------------------------------------- videos
\* main() on one image (preview) and two videos, against a server that answers
\* every request; the user may cancel at any moment.

VideoTask2 == Node(Id3, <<"w", ".", "m", "p", "4">>, MimeMp4, <<"m", "p", "4">>, <<>>, RootR, OutR)

VideoTargets == {ProcessTarget(t) : t \in {ImageTask, VideoTask, VideoTask2}}

InitVideos ==
    /\ DOWNLOAD_IMAGES_ORIGINAL = FALSE
    /\ DOWNLOAD_VIDEOS = TRUE
    /\ image_tasks = <<ImageTask>>
    /\ video_tasks = <<VideoTask, VideoTask2>>
    /\ fs = [p \in VideoTargets |-> NoFile]
    /\ before = fs
    /\ PAUSE = FALSE
    /\ IdleGui
    /\ IdleWalker
    /\ IdleClassifier
    /\ IdleConverter
    /\ IdlePoller
    /\ raised = {}
    /\ replayed = <<>>
    /\ startLen = [w \in Threads |-> 0]
    /\ INCOMPLETE_TARGETS = {}
    /\ INTERRUPTED = FALSE
    /\ bytes_written = 0
    /\ pc = [w \in Threads |-> "idle"]
    /\ target = [w \in Threads |-> NoPath]
    /\ IdleLocals
    /\ faultsLeft = 0
    /\ breaksLeft = 0
    /\ stallsLeft = 0
    /\ written = 0
    /\ results = {}
    /\ IdleCounters
    /\ IdlePlanner
    /\ mpc = "images"
    /\ task = [w \in Threads |-> NoTask]

NextVideos == NextTask \/ Run_Interrupt

SpecVideos == InitVideos /\ [][NextVideos]_vars

\* A process_file call on a video task is in progress in thread w.
VideoInFlight(w) == pc[w] # "idle" /\ task[w] # NoTask /\ IsVideoTask(task[w])

\* C22: video tasks are transferred one at a time and in the order of the
\* task list.  At most one thread is inside process_file for a video; and a
\* video is started only when no video is in flight, and it is the first one
\* of the videos not yet started.
C22_VideosSequential ==
    /\ [](Cardinality({w \in Threads : VideoInFlight(w)}) <= 1)
    /\ [][\A w \in Threads :
            (~VideoInFlight(w) /\ VideoInFlight(w)')
                => /\ \A v \in Threads : ~VideoInFlight(v)
                   /\ video_tasks # <<>>
                   /\ task'[w] = Head(video_tasks)
                   /\ video_tasks' = Tail(video_tasks)]_vars

\* The second video is being transferred (the first one has returned).
C22_SecondVideoInFlight ==
    /\ VideoInFlight("main")
    /\ task["main"] = VideoTask2
    /\ pc["main"] = "df_stream"
    /\ \E r \in results : r[1] = ProcessTarget(VideoTask) /\ r[3] = "main"


\* The preview window is dismissed without a download being started: its
\* Cancel button, its close button, or Start Download with nothing to do.
PreviewDismissed == prescan_win.exists /\ ~prescan_win.exists' /\ worker' = worker

StartRecovered == start_btn = "normal" /\ cancel_btn = "disabled"

\* C23: the Start button recovers.  Dismissing the preview enables Start and
\* disables Cancel, and every pre-scan whose finish_prescan has run is
\* followed by a state in which Start is enabled and Cancel disabled,
\* whatever the user does or does not do afterwards.
C23_StartRecovers ==
    /\ [][PreviewDismissed => StartRecovered']_vars
    /\ \A g \in Scans : (gscan[g].pc = "finished") ~> StartRecovered


\* The pre-scan that was started together with the preview window now shown.
OwnScan == gscan[prescan_win.id]

\* C24: the preview's Start Download button is enabled only by the window's
\* own pre-scan.  While the preview window exists and its Start Download
\* button is enabled, the pre-scan that was started with this window has
\* completed, with every one of its roots scanned.
C24_EnabledByOwnScan ==
    (prescan_win.exists /\ prescan_start_button = "normal")
        => OwnScan.pc = "finished" /\ OwnScan.full = GuiRoots


\* ----------------------------------------------- the incomplete-target set

\* The call of thread w has returned v.
Returned(w, v) == pc[w] = "returned" /\ ret[w] = v

\* C25: the protocol of INCOMPLETE_TARGETS.  A file is written only while its
\* path is in the set; when a call has returned True its target is not in the
\* set, and when it has returned False (attempts used up, or interrupted) its
\* target is in the set.
C25_IncompleteProtocol ==
    /\ [][\A p \in DOMAIN fs : fs'[p] # fs[p] => p \in INCOMPLETE_TARGETS]_vars
    /\ [](\A w \in Threads :
            /\ Returned(w, "True") => target[w] \notin INCOMPLETE_TARGETS
            /\ Returned(w, "False") => target[w] \in INCOMPLETE_TARGETS)


\* ------------------------------------------------- the remaining range

\* Thread w is about to issue a content request after a failed attempt.
Retrying(w) == pc[w] = "df_req" /\ failed[w] > 0

\* C26: a chunk-level failure retries the remaining range.  Every content
\* request that download_file_resumable issues after a failed attempt asks for
\* the range that starts at the number of bytes written so far, and the file
\* is opened for appending.
C26_RetryRemainingRange ==
    \A w \in Threads :
        Retrying(w) => headers[w] = downloaded[w] /\ mode[w] = "ab"


\* C27: a successful resumable download of a file of known size has the
\* file's length.  When download_file_resumable has returned True with the
\* remote size known, the local file exists and its length is the downloaded
\* count and is the remote size.
C27_LengthIsSize ==
    \A w \in Threads :
        (Returned(w, "True") /\ total_size[w] # NoSize)
            => /\ Exists(target[w])
               /\ GetSize(target[w]) = downloaded[w]
               /\ downloaded[w] = total_size[w]


\* ------------------------------------------------ range not satisfiable

\* The length of the local file of thread w (0 when there is none).
LocalLen(w) == IF Exists(target[w]) THEN GetSize(target[w]) ELSE 0

\* This step is the server's answer 416 to a request of thread w for the range
\* that starts at the local length: a content request, or the probe.
Answered416(w) ==
    /\ faultsLeft' = faultsLeft
    /\ \/ /\ pc[w] = "df_req"
          /\ requests'[w] = requests[w] + 1
          /\ headers[w] = LocalLen(w)
          /\ headers[w] >= RemoteLen(task[w].id)
       \/ /\ pc[w] = "df_probe"
          /\ pc'[w] # "df_probe"
          /\ downloaded[w] = LocalLen(w)
          /\ downloaded[w] >= RemoteLen(task[w].id)

\* C28: range not satisfiable means complete.  When a request for the range
\* starting at the local length is answered 416, download_file_resumable
\* returns True at once, with the remote size known or not.
C28_RangeEndMeansComplete ==
    [][\A w \in Threads : Answered416(w) => Returned(w, "True")']_vars


\* ------------------------------------------------------------- empty body
\* One call of download_file_resumable against a server that answers every
\* request (no exception, no pause) and may answer a content request with
\* 200/206 and an empty body.

\* The request counter is kept up to this many requests ("this many or more").
MaxRequests == 3

\* session.get answers 200/206, the file is opened in the current mode, and
\* iter_content yields nothing (downloads.py, lines 105-113).
DF_EmptyResponse(w) ==
    /\ pc[w] = "df_req"
    /\ headers[w] < RemoteLen(task[w].id)
    /\ requests' = Set(requests, w, IF requests[w] < MaxRequests THEN requests[w] + 1
                                    ELSE MaxRequests)
    /\ firstRange' = Set(firstRange, w, IF requests[w] = 0 THEN headers[w] ELSE firstRange[w])
    /\ fs' = [fs EXCEPT ![target[w]] =
                 IF mode[w] = "wb" \/ ~Exists(target[w]) THEN <<>> ELSE @]
    /\ fpos' = Set(fpos, w, 0)
    /\ body' = Set(body, w, <<>>)
    /\ pc' = Set(pc, w, "df_stream")
    /\ UNCHANGED <<notEngine, startLen, INCOMPLETE_TARGETS, INTERRUPTED, bytes_written, target,
                   total_size, downloaded, headers, retries, impl, tmp, faultsLeft,
                   breaksLeft, stallsLeft, written, ret, results, attempt, mode, failed>>

InitEmpty ==
    /\ DOWNLOAD_IMAGES_ORIGINAL = FALSE
    /\ DOWNLOAD_VIDEOS = TRUE
    /\ \E L \in 0..RemoteSize :
         /\ fs = [p \in {ProcessTarget(VideoTask)} |-> IF L = 0 THEN NoFile ELSE Prefix(L)]
         /\ startLen = [w \in Threads |-> L]
    /\ before = fs
    /\ PAUSE = FALSE
    /\ IdleGui
    /\ IdleWalker
    /\ IdleClassifier
    /\ IdleConverter
    /\ IdlePoller
    /\ raised = {}
    /\ replayed = <<>>
    /\ INCOMPLETE_TARGETS = {}
    /\ INTERRUPTED = FALSE
    /\ bytes_written = 0
    /\ pc = [w \in Threads |-> IF w = "w1" THEN "df_start" ELSE "idle"]
    /\ target = [w \in Threads |-> ProcessTarget(VideoTask)]
    /\ IdleLocals
    /\ faultsLeft = 0
    /\ breaksLeft = 0
    /\ stallsLeft = 0
    /\ written = 0
    /\ results = {}
    /\ IdleCounters
    /\ IdlePlanner
    /\ mpc = "call"
    /\ image_tasks = <<>>
    /\ video_tasks = <<>>
    /\ task = [w \in Threads |-> IF w = "w1" THEN VideoTask ELSE NoTask]

\* The steps of the call when every request is answered in full.
AnsweredInFull ==
    \E w \in Threads :
        \/ DF_Start(w) \/ DF_Meta(w) \/ DF_Stat(w) \/ DF_Already(w) \/ DF_Top(w)
        \/ DF_Response(w) \/ DF_NextChunk(w) \/ DF_AddBytes(w) \/ DF_StreamEnds(w)
        \/ DF_After(w) \/ DF_ProbeAnswers(w)

NextEmpty == AnsweredInFull \/ \E w \in Threads : DF_EmptyResponse(w)

\* The thread runs and every request is answered.
SpecEmpty == InitEmpty /\ [][NextEmpty]_vars /\ WF_vars(NextEmpty)

\* C29: every call of download_file_resumable returns.  A call that has
\* begun is followed by its return, True or False, whatever the answered
\* requests deliver.
C29_CallReturns ==
    \A w \in Threads : (pc[w] = "df_start") ~> (pc[w] = "returned")


\* ------------------------------------------------------------------ cycle
\* One walk of the tree under CycleRoot, whose subfolder holds a shortcut to
\* CycleRoot, consumed by the loop of _scan_one; the operator may interrupt.

\* The number of nested generators at which the interpreter refuses one more
\* (its recursion limit; list_folder_recursive itself has no limit).
MaxDepth == 4

\* The next record of the page is a folder or a shortcut to a folder: lines
\* 95-109 call list_folder_recursive again.
W_Descends ==
    /\ wstatus = "running"
    /\ wstack # <<>>
    /\ WTop.st = "items"
    /\ WTop.i <= Len(WPage)
    /\ ~INTERRUPTED
    /\ LET item == WPage[WTop.i]
       IN  \/ item.mimeType = FolderMime
           \/ /\ item.mimeType = ShortcutMime
              /\ item.shortcutDetails.targetMimeType = FolderMime
              /\ item.shortcutDetails.targetId # <<>>

\* One round of the for loop while the interpreter allows the call it makes.
W_ItemInLimit == ~(W_Descends /\ Len(wstack) >= MaxDepth) /\ W_Item

\* The nested call is refused: RecursionError leaves every generator and
\* reaches the consumer of the walk.
W_RecursionError ==
    /\ W_Descends
    /\ Len(wstack) >= MaxDepth
    /\ wstack' = <<>>
    /\ wstatus' = "raised"
    /\ witem' = [id |-> WTop.folder, rel_path |-> WTop.rel]
    /\ UNCHANGED <<walkRest, INTERRUPTED, faultsLeft, yielded, listed, lookups>>

InitCycle ==
    /\ DOWNLOAD_IMAGES_ORIGINAL \in BOOLEAN
    /\ DOWNLOAD_VIDEOS \in BOOLEAN
    /\ fs = [p \in {ProcessTarget(ImageTask)} |-> NoFile]
    /\ before = fs
    /\ PAUSE = FALSE
    /\ IdleGui
    /\ wstack = <<Frame(CycleRoot, <<>>)>>
    /\ wstatus = "running"
    /\ witem = NoItem
    /\ yielded = <<>>
    /\ listed = <<>>
    /\ lookups = <<>>
    /\ IdleClassifier
    /\ IdleConverter
    /\ IdlePoller
    /\ raised = {}
    /\ replayed = <<>>
    /\ startLen = [w \in Threads |-> 0]
    /\ INCOMPLETE_TARGETS = {}
    /\ INTERRUPTED = FALSE
    /\ bytes_written = 0
    /\ pc = [w \in Threads |-> "idle"]
    /\ task = [w \in Threads |-> NoTask]
    /\ target = [w \in Threads |-> NoPath]
    /\ IdleLocals
    /\ faultsLeft = 0
    /\ breaksLeft = 0
    /\ stallsLeft = 0
    /\ written = 0
    /\ results = {}
    /\ IdleCounters
    /\ IdlePlanner
    /\ mpc = "idle"
    /\ image_tasks = <<>>
    /\ video_tasks = <<>>

\* The steps of the walk and of the loop that consumes it.
WalkStep ==
    \/ W_List
    \/ W_ItemInLimit
    \/ W_RecursionError
    \/ W_PageEnd
    \/ Scan_Body

NextCycle == WalkStep \/ SetInterrupted

\* Every listing is answered and the thread runs.
SpecCycle == InitCycle /\ [][NextCycle]_vars /\ WF_vars(WalkStep)

\* C30: the enumeration of a finite store terminates.  Every walk comes to
\* its end, by the return of the outermost generator or by the consumer's
\* break on an interrupt, also when a folder shortcut points to an ancestor.
C30_WalkTerminates == <>(wstatus \in {"done", "closed"})


\* -------------------------------------------------------------- shortcuts
\* One walk of the folder of shortcuts, consumed by the loop of _scan_one.

InitShortcut ==
    /\ DOWNLOAD_IMAGES_ORIGINAL \in BOOLEAN
    /\ DOWNLOAD_VIDEOS \in BOOLEAN
    /\ fs = [p \in {ProcessTarget(ImageTask)} |-> NoFile]
    /\ before = fs
    /\ PAUSE = FALSE
    /\ IdleGui
    /\ wstack = <<Frame(ShortcutRoot, <<>>)>>
    /\ wstatus = "running"
    /\ witem = NoItem
    /\ yielded = <<>>
    /\ listed = <<>>
    /\ lookups = <<>>
    /\ IdleClassifier
    /\ IdleConverter
    /\ IdlePoller
    /\ raised = {}
    /\ replayed = <<>>
    /\ startLen = [w \in Threads |-> 0]
    /\ INCOMPLETE_TARGETS = {}
    /\ INTERRUPTED = FALSE
    /\ bytes_written = 0
    /\ pc = [w \in Threads |-> "idle"]
    /\ task = [w \in Threads |-> NoTask]
    /\ target = [w \in Threads |-> NoPath]
    /\ IdleLocals
    /\ faultsLeft \in 0..WalkFaults
    /\ breaksLeft = 0
    /\ stallsLeft = 0
    /\ written = 0
    /\ results = {}
    /\ IdleCounters
    /\ IdlePlanner
    /\ mpc = "idle"
    /\ image_tasks = <<>>
    /\ video_tasks = <<>>

SpecShortcut == InitShortcut /\ [][NextWalk]_vars

\* C31: a shortcut never yields a node itself.  Every node yielded for a
\* shortcut record carries an id that is not a shortcut's own and a content
\* type that is neither the shortcut type nor the folder type, whatever the
\* record's shortcutDetails hold.
C31_ShortcutNeverItself ==
    \A i \in DOMAIN yielded :
        yielded[i].from_shortcut
        => /\ yielded[i].id \notin ShortcutIds
           /\ yielded[i].mimeType \notin {ShortcutMime, FolderMime}


\* ------------------------------------------------ interruption and failure

\* C32: interruption is not an error.  In a run whose every request is
\* answered in full, so that a transfer ends unsuccessfully only by finding
\* the interrupt flag set, no transfer is counted as failed and none is added
\* to the failure list.
C32_InterruptNotFailure ==
    /\ TOTALS.grand.images_failed = 0
    /\ TOTALS.grand.videos_failed = 0
    /\ FAILED_ITEMS = <<>>


\* ------------------------------------------- interrupt inside a transfer

\* The transfer of w has had a connection answered and has not returned.
InFlight(w) == requests[w] > 0 /\ pc[w] \notin {"idle", "returned"}

\* The step sends a request of w: a content request (lines 104-106) or the
\* probe (lines 147-148).
Connects(w) ==
    \/ requests'[w] > requests[w]
    \/ pc[w] = "df_probe" /\ pc'[w] # "df_probe"

\* The step is the chunk loop of w taking a chunk and writing it (lines
\* 113-117).
TakesChunk(w) == pc[w] = "df_stream" /\ pc'[w] = "df_bytes"

\* C33: bounded response to interrupt inside a transfer.  Once INTERRUPTED is
\* set, a resumable transfer in flight takes no further chunk from its stream
\* and sends no further request (no retry, no probe) before it returns.
C33_InterruptBoundsTransfer ==
    [][\A w \in Threads :
         INTERRUPTED /\ InFlight(w) => ~Connects(w) /\ ~TakesChunk(w)]_vars


\* ---------------------------------------------------- pause checkpoints

\* Thread w stands in wait_if_paused with PAUSE set: before its connection
\* attempt (downloads.py, line 102) or before writing the chunk it has taken
\* (line 116).
PausedAtCheckpoint(w) == PAUSE /\ pc[w] \in {"df_top_wait", "df_chunk_wait"}

\* The thread stays where it is: no request, no byte written.
StaysPaused(w) ==
    /\ pc'[w] = pc[w]
    /\ requests'[w] = requests[w]
    /\ fpos'[w] = fpos[w]

\* The thread goes on to its connection attempt or writes its chunk.
GoesOn(w) == pc'[w] \in {"df_req", "df_bytes"}

\* C34: pause checkpoints.  While PAUSE is set and INTERRUPTED is not, a
\* transfer that stands at a checkpoint (before a connection attempt, before
\* writing a chunk) sends no request and writes nothing; released by
\* INTERRUPTED instead, it does not go on to the connection attempt or the
\* write.
C34_PauseCheckpoints ==
    [][\A w \in Threads :
         PausedAtCheckpoint(w) => IF INTERRUPTED THEN ~GoesOn(w) ELSE StaysPaused(w)]_vars


\* ------------------------------------------- conversion mode: the names

\* [A-Za-z0-9_-], of which the model's alphabet holds these.
FidChars ==
    {"a", "b", "c", "d", "e", "f", "g", "h", "i", "j", "k", "l", "m", "n", "o", "p", "q", "r",
     "s", "t", "u", "v", "w", "x", "y", "z", "A", "J", "P", "G", "M", "V",
     "0", "1", "2", "3", "4", "5", "6", "7", "8", "9", "_", "-"}

\* \d
DigitChars == {"0", "1", "2", "3", "4", "5", "6", "7", "8", "9"}

\* r"_w\d+\.jpg$" with re.IGNORECASE matches s from index k on.
WidthTailAt(s, k) ==
    LET n == Len(s)
        l == Lower(s)
    IN  /\ k >= 1
        /\ k + 2 <= n - 4
        /\ l[k] = "_"
        /\ l[k + 1] = "w"
        /\ \A j \in (k + 2)..(n - 4) : l[j] \in DigitChars
        /\ SubSeq(l, n - 3, n) = DotJpg

\* The index at which r"_w\d+\.jpg$" matches s, 0 when it does not.
WidthTail(s) ==
    LET K == {k \in 1..Len(s) : WidthTailAt(s, k)}
    IN  IF K = {} THEN 0 ELSE CHOOSE k \in K : \A j \in K : k <= j

\* The places at which pat = r"__(?P<fid>[A-Za-z0-9_-]+)_w\d+\.jpg$" (main.py,
\* line 48) matches s: "__" at i, then one or more id characters up to the
\* width tail.
PatStarts(s) ==
    {i \in 1..Len(s) :
        /\ WidthTail(s) > i + 2
        /\ s[i] = "_"
        /\ s[i + 1] = "_"
        /\ \A j \in (i + 2)..(WidthTail(s) - 1) : s[j] \in FidChars}

NoFid == <<>>

\* m = pat.search(name); m.group("fid"): the leftmost match, NoFid for none.
PatSearchFid(s) ==
    IF PatStarts(s) = {} THEN NoFid
    ELSE LET i == CHOOSE i \in PatStarts(s) : \A j \in PatStarts(s) : i <= j
         IN  SubSeq(s, i + 2, WidthTail(s) - 1)

\* re.sub(r"_w\d+\.jpg$", "", name, flags=re.IGNORECASE), line 69.
BaseNoThumb(s) == IF WidthTail(s) = 0 THEN s ELSE SubSeq(s, 1, WidthTail(s) - 1)

\* path.name
PathName(p) == SubSeq(p, LastIndexOf(p, "/") + 1, Len(p))

\* path.with_name(n)
WithName(p, n) == SubSeq(p, 1, LastIndexOf(p, "/")) \o n

\* Lines 57-70: the target of the original, ext_out being what get_item and
\* splitext gave or ".jpg".
ConvertTarget(path, ext_out) == WithName(path, BaseNoThumb(PathName(path)) \o ext_out)

\* The file names examined: the base names of up to MaxBase characters over
\* NameAlphabet, and two remote ids.
MaxBase == 3

NameAlphabet == {"a", "_", "w", "4"}

NameBases == UNION {[1..n -> NameAlphabet] : n \in 1..MaxBase}

IdW == <<"x", "_", "w", "1">>

NameIds == {Id1, IdW}

\* The preview the engine writes for an image <base>.jpg with remote id fid
\* in the folder OutR (process.py, lines 26-32).
PreviewPath(base, fid) == PathJoin(OutR, ImageFileName(base \o DotJpg, fid, <<"j", "p", "g">>, FALSE))

\* The original of the same item: <base>__<id><ext>.
OriginalPath(base, fid) == PathJoin(OutR, ImageFileName(base \o DotJpg, fid, <<"j", "p", "g">>, TRUE))

\* main(), lines 49-70, for one path: the id and the target are worked out
\* from the name.
CV_Match ==
    /\ thumbs # <<>>
    /\ thumbs' = Tail(thumbs)
    /\ LET path == Head(thumbs)
           fid  == PatSearchFid(PathName(path))
       IN  converted' = IF fid = NoFid THEN converted
                        ELSE converted \cup {<<path, fid, ConvertTarget(path, DotJpg)>>}
    /\ UNCHANGED <<settings, walkVars, classVars, pollVars, raised, replayed, guiVars, engineVars,
                   counterVars, mainVars, planVars>>

InitNames ==
    /\ DOWNLOAD_IMAGES_ORIGINAL = FALSE
    /\ DOWNLOAD_VIDEOS = TRUE
    /\ \E base \in NameBases, fid \in NameIds :
         /\ fs = [p \in {PreviewPath(base, fid)} |-> <<1>>]
         /\ thumbs = <<PreviewPath(base, fid)>>
    /\ converted = {}
    /\ IdlePoller
    /\ before = fs
    /\ PAUSE = FALSE
    /\ IdleGui
    /\ IdleWalker
    /\ IdleClassifier
    /\ raised = {}
    /\ replayed = <<>>
    /\ startLen = [w \in Threads |-> 0]
    /\ INCOMPLETE_TARGETS = {}
    /\ INTERRUPTED = FALSE
    /\ bytes_written = 0
    /\ pc = [w \in Threads |-> "idle"]
    /\ task = [w \in Threads |-> NoTask]
    /\ target = [w \in Threads |-> NoPath]
    /\ IdleLocals
    /\ faultsLeft = 0
    /\ breaksLeft = 0
    /\ stallsLeft = 0
    /\ written = 0
    /\ results = {}
    /\ IdleCounters
    /\ IdlePlanner
    /\ mpc = "convert"
    /\ image_tasks = <<>>
    /\ video_tasks = <<>>

SpecNames == InitNames /\ [][CV_Match]_vars

\* C40: id round-trip in conversion mode.  For every base name and remote
\* id, the preview <base>__<id>_w<width>.jpg the engine wrote is matched, the
\* id extracted from its name is that remote id, and the target of the
\* original is <base>__<id><ext>.
C40_IdRoundTrip ==
    \A base \in NameBases, fid \in NameIds :
        thumbs = <<>> /\ PreviewPath(base, fid) \in DOMAIN fs
        => converted = {<<PreviewPath(base, fid), fid, OriginalPath(base, fid)>>}


\* ------------------------------------------- conversion mode: the run

\* Two previews in the folder OutR, of a.jpg (Id1) and b.jpg (Id2), and their
\* originals.
ConvertPreviews == <<PreviewPath(<<"a">>, Id1), PreviewPath(<<"b">>, Id2)>>

ConvertOriginals == {OriginalPath(<<"a">>, Id1), OriginalPath(<<"b">>, Id2)}

\* The remote id whose original is written to p.
OriginalId(p) == IF p = OriginalPath(<<"a">>, Id1) THEN Id1 ELSE Id2

\* thumb_dir.rglob("*_w*.jpg"): the previews on disk.
RGlob == SelectSeq(ConvertPreviews, Exists)

\* main(), lines 21-47: TOTALS = Totals(), INTERRUPTED = False, and the
\* conversion loop begins.  main() is called again when it has returned.
CV_Main ==
    /\ mpc \in {"call", "done"}
    /\ TOTALS' = NewTotals
    /\ bytes_written' = 0
    /\ INTERRUPTED' = FALSE
    /\ thumbs' = RGlob
    /\ mpc' = "convert"
    /\ UNCHANGED <<settings, walkVars, classVars, converted, pollVars, raised, replayed, guiVars, planVars,
                   image_tasks, video_tasks, task, FAILED_ITEMS, LOCK, op, ctmp, pfret>>
    /\ UNCHANGED <<fs, INCOMPLETE_TARGETS, pc, target, total_size, downloaded, mode, headers,
                   attempt, retries, impl, body, fpos, ret, tmp, faultsLeft, breaksLeft,
                   stallsLeft, startLen, written, results, firstRange, requests, failed>>

\* Lines 49-78 for one path: break on INTERRUPTED; the id and the target from
\* the name; "Already have original" and images_skipped += 1 when the target
\* exists; download_file_resumable otherwise.  After the loop
\* print_grand_summary() and return (lines 83-84).
CV_Path ==
    /\ mpc = "convert"
    /\ pc["main"] = "idle"
    /\ IF INTERRUPTED \/ thumbs = <<>>
       THEN /\ mpc' = "done"
            /\ UNCHANGED <<thumbs, converted, TOTALS, task, target, pc, startLen, total_size,
                           downloaded, mode, headers, attempt, body, fpos, ret, tmp,
                           firstRange, requests, failed>>
       ELSE LET path == Head(thumbs)
                fid  == PatSearchFid(PathName(path))
                t    == ConvertTarget(path, DotJpg)
            IN  /\ thumbs' = Tail(thumbs)
                /\ UNCHANGED mpc
                /\ IF fid = NoFid
                   THEN UNCHANGED <<converted, TOTALS, task, target, pc, startLen, total_size,
                                    downloaded, mode, headers, attempt, body, fpos, ret, tmp,
                                    firstRange, requests, failed>>
                   ELSE /\ converted' = converted \cup {<<path, fid, t>>}
                        /\ IF Exists(t) /\ ~OVERWRITE
                           THEN /\ TOTALS' = [TOTALS EXCEPT !.grand.images_skipped = @ + 1]
                                /\ UNCHANGED <<task, target, pc, startLen, total_size,
                                               downloaded, mode, headers, attempt, body, fpos,
                                               ret, tmp, firstRange, requests, failed>>
                           ELSE /\ task' = Set(task, "main",
                                               Node(fid, PathName(path), NoMime, NoExt, <<>>,
                                                    <<>>, <<>>))
                                /\ target' = Set(target, "main", t)
                                /\ startLen' = Set(startLen, "main", 0)
                                /\ IdleEngine("main")
                                /\ pc' = Set(pc, "main", "df_start")
                                /\ UNCHANGED TOTALS
    /\ UNCHANGED <<settings, walkVars, classVars, pollVars, raised, replayed, guiVars, planVars,
                   image_tasks, video_tasks, FAILED_ITEMS, LOCK, op, ctmp, pfret>>
    /\ UNCHANGED <<fs, INCOMPLETE_TARGETS, INTERRUPTED, bytes_written, retries, impl,
                   faultsLeft, breaksLeft, stallsLeft, written, results>>

\* Lines 79-82: images_done += 1 or images_failed += 1.
CV_Result ==
    /\ mpc = "convert"
    /\ pc["main"] = "returned"
    /\ TOTALS' = [TOTALS EXCEPT !.grand[IF ret["main"] = "True" THEN "images_done"
                                        ELSE "images_failed"] = @ + 1]
    /\ pc' = Set(pc, "main", "idle")
    /\ UNCHANGED <<cfgVars, planVars, mainVars, FAILED_ITEMS, LOCK, op, ctmp, pfret>>
    /\ UNCHANGED <<fs, INCOMPLETE_TARGETS, INTERRUPTED, bytes_written, target, total_size,
                   downloaded, mode, headers, attempt, retries, impl, body, fpos, ret, tmp,
                   faultsLeft, breaksLeft, stallsLeft, startLen, written, results, firstRange,
                   requests, failed>>

\* Conversion runs, one after the other in one process, on a folder holding
\* the two previews; every request is answered and the user may cancel.
InitConvert ==
    /\ DOWNLOAD_IMAGES_ORIGINAL = FALSE
    /\ DOWNLOAD_VIDEOS = TRUE
    /\ fs = [p \in Range(ConvertPreviews) \cup ConvertOriginals |->
               IF p \in ConvertOriginals THEN NoFile ELSE <<1>>]
    /\ thumbs = <<>>
    /\ converted = {}
    /\ IdlePoller
    /\ before = fs
    /\ PAUSE = FALSE
    /\ IdleGui
    /\ IdleWalker
    /\ IdleClassifier
    /\ raised = {}
    /\ replayed = <<>>
    /\ startLen = [w \in Threads |-> 0]
    /\ INCOMPLETE_TARGETS = {}
    /\ INTERRUPTED = FALSE
    /\ bytes_written = 0
    /\ pc = [w \in Threads |-> "idle"]
    /\ task = [w \in Threads |-> NoTask]
    /\ target = [w \in Threads |-> NoPath]
    /\ IdleLocals
    /\ faultsLeft = 0
    /\ breaksLeft = 0
    /\ stallsLeft = 0
    /\ written = 0
    /\ results = {}
    /\ IdleCounters
    /\ IdlePlanner
    /\ mpc = "call"
    /\ image_tasks = <<>>
    /\ video_tasks = <<>>

NextConvert ==
    \/ CV_Main
    \/ CV_Path
    \/ CV_Result
    \/ Run_Interrupt
    \/ DF_Start("main")
    \/ DF_Meta("main")
    \/ DF_Stat("main")
    \/ DF_Top("main")
    \/ DF_Response("main")
    \/ DF_NextChunk("main")
    \/ DF_AddBytes("main")
    \/ DF_StreamEnds("main")
    \/ DF_After("main")
    \/ DF_ProbeAnswers("main")

SpecConvert == InitConvert /\ [][NextConvert]_vars

\* The original at p is there in part only.
HalfWritten(p) == Exists(p) /\ fs[p] # RemoteContent(OriginalId(p))

\* The step skips the preview at hand as "Already have original".
SkipsAsHave == TOTALS'.grand.images_skipped > TOTALS.grand.images_skipped

\* C37: conversion mode leaves no half-written original.  When a conversion
\* run of main() has returned, after the last preview or after an interrupt,
\* no original on disk is there in part only, and no run skips a half-written
\* original as "Already have original".
C37_NoHalfWrittenOriginal ==
    /\ [](mpc = "done" => \A p \in ConvertOriginals : ~HalfWritten(p))
    /\ [][SkipsAsHave => ~HalfWritten(ConvertTarget(Head(thumbs), DotJpg))]_vars


\* --------------------------------------------------- the start of a run

\* The step is main() beginning a run: lines 21-28 have been executed.
RunStarts == mpc \in {"call", "done"} /\ mpc' \notin {"call", "done"}

\* C35: per-run lifecycle.  When a run begins, the Counters are zero and the
\* set of incomplete targets is empty: no count and no incomplete path of an
\* earlier run in the same process is carried into it.
C35_RunStartsClean ==
    [][RunStarts => /\ TOTALS' = NewTotals
                    /\ bytes_written' = 0
                    /\ INCOMPLETE_TARGETS' = {}]_vars


\* ------------------------------------------------------- shared targets

\* Thread w has its target open and a chunk of the response still to write
\* (downloads.py, lines 49-55 and 112-118).
StillWriting(w) == pc[w] \in {"dt_stream", "df_stream", "df_bytes"} /\ body[w] # <<>>

\* C36: tracking under shared targets.  Whenever a thread is still writing
\* its target, the target is in INCOMPLETE_TARGETS - also when two tasks of
\* the run have the same target - and when main() has returned after an
\* interrupt and its cleanup, no file of the run is there in part only.
C36_TrackedWhileWriting ==
    /\ \A w \in Threads : StillWriting(w) => target[w] \in INCOMPLETE_TARGETS
    /\ (mpc = "done" /\ INTERRUPTED) => \A p \in RunTargets : fs[p] \in {NoFile, CompleteAt(p)}


\* ------------------------------------------- grand and per-folder counters

OutS == FolderOut(Url2, RootS)

\* An image of the second root folder.
ImageTaskS == Node(Id3, <<"b", ".", "j", "p", "g">>, MimeJpeg, <<"j", "p", "g">>, <<>>, RootS, OutS)

TotalsTargets == {ProcessTarget(t) : t \in {ImageTask, ImageTaskS, VideoTask}}

\* A normal run on an image of each of two root folders and a video of the
\* first, which is already there or not, against a server that may refuse up
\* to FailFaults requests.
InitTotals ==
    /\ DOWNLOAD_IMAGES_ORIGINAL = FALSE
    /\ DOWNLOAD_VIDEOS = TRUE
    /\ image_tasks = <<ImageTask, ImageTaskS>>
    /\ video_tasks = <<VideoTask>>
    /\ \E have \in BOOLEAN :
         fs = [p \in TotalsTargets |->
                 IF have /\ p = ProcessTarget(VideoTask) THEN RemoteContent(Id2) ELSE NoFile]
    /\ before = fs
    /\ PAUSE = FALSE
    /\ IdleGui
    /\ IdleWalker
    /\ IdleClassifier
    /\ IdleConverter
    /\ IdlePoller
    /\ raised = {}
    /\ replayed = <<>>
    /\ startLen = [w \in Threads |-> 0]
    /\ INCOMPLETE_TARGETS = {}
    /\ INTERRUPTED = FALSE
    /\ bytes_written = 0
    /\ pc = [w \in Threads |-> "idle"]
    /\ target = [w \in Threads |-> NoPath]
    /\ IdleLocals
    /\ faultsLeft = FailFaults
    /\ breaksLeft = 0
    /\ stallsLeft = 0
    /\ written = 0
    /\ results = {}
    /\ IdleCounters
    /\ IdlePlanner
    /\ mpc = "images"
    /\ task = [w \in Threads |-> NoTask]

SpecTotals == InitTotals /\ [][NextFail]_vars

\* The counters the claim is about.
CounterNames == DOMAIN ZeroCounters

RECURSIVE FolderSum(_, _, _)
\* The sum of counter k over the root labels in keys.
FolderSum(T, keys, k) ==
    IF keys = {} THEN 0
    ELSE LET key == CHOOSE x \in keys : TRUE
         IN  T.per_folder[key][k] + FolderSum(T, keys \ {key}, k)

\* C38: grand counters are the sums.  Whenever no thread holds the mutex,
\* each grand counter (scanned, and done, skipped, failed per kind) equals the
\* sum of that counter over the per-folder counters of all root labels.
C38_GrandIsSum ==
    LOCK = "free" =>
        \A k \in CounterNames : TOTALS.grand[k] = FolderSum(TOTALS, DOMAIN TOTALS.per_folder, k)

\* Both root folders have counted, three tasks are scanned, one is done, one
\* has failed and the video was skipped.
C38_TwoRootsCounted ==
    /\ LOCK = "free"
    /\ DOMAIN TOTALS.per_folder = {RootR, RootS}
    /\ TOTALS.grand.scanned = 3
    /\ TOTALS.grand.images_done = 1
    /\ TOTALS.grand.images_failed = 1
    /\ TOTALS.grand.videos_skipped = 1


\* ----------------------------------- the GUI pre-scan: summaries delivered

pollRest == <<settings, walkVars, classVars, convVars, raised, replayed, guiVars, engineVars,
              counterVars, mainVars, planVars>>

\* range(sent_count[0], len(summaries)): each of them is handed to
\* add_prescan_folder by app_ref.after(0, ...), which runs them in order.
Deliver(summaries) == delivered \o SubSeq(summaries, sent_count + 1, Len(summaries))

\* run_prescan, lines 433-453: sent_count = [0], prescan_done = [False], and
\* threading.Timer(0.1, _poll_summaries).start().
GP_Start ==
    /\ flusher = "start"
    /\ sent_count' = 0
    /\ prescan_done' = FALSE
    /\ poller' = [pc |-> "armed", summaries |-> <<>>]
    /\ flusher' = "prescan"
    /\ UNCHANGED <<delivered, pollRest>>

\* Line 456: tasks = dfr_prescan.prescan_tasks(service) is entered.
GP_Prescan ==
    /\ flusher = "prescan"
    /\ plans = <<>>
    /\ P_Begin

\* Lines 456-457: prescan_tasks has returned; prescan_done[0] = True.
GP_Done ==
    /\ flusher = "prescan"
    /\ plans # <<>>
    /\ prescan_done' = TRUE
    /\ flusher' = "flush"
    /\ UNCHANGED <<sent_count, poller, delivered, pollRest>>

\* Lines 459-466: the remaining summaries are sent, from sent_count[0] on;
\* then _finish is handed to the main thread (lines 476-483).
GP_Flush ==
    /\ flusher = "flush"
    /\ delivered' = Deliver(LINK_SUMMARIES)
    /\ flusher' = "finished"
    /\ UNCHANGED <<sent_count, prescan_done, poller, pollRest>>

\* _poll_summaries, lines 437-439: the timer fires; `if prescan_done[0]:
\* return`.
PL_Check ==
    /\ poller.pc = "armed"
    /\ poller' = [poller EXCEPT !.pc = IF prescan_done THEN "dead" ELSE "snapshot"]
    /\ UNCHANGED <<sent_count, prescan_done, flusher, delivered, pollRest>>

\* Line 441: summaries = list(dfr.LINK_SUMMARIES).
PL_Snapshot ==
    /\ poller.pc = "snapshot"
    /\ poller' = [pc |-> "send", summaries |-> LINK_SUMMARIES]
    /\ UNCHANGED <<sent_count, prescan_done, flusher, delivered, pollRest>>

\* Lines 442-447: for i in range(sent_count[0], len(summaries)): after(0, ...).
PL_Send ==
    /\ poller.pc = "send"
    /\ delivered' = Deliver(poller.summaries)
    /\ poller' = [poller EXCEPT !.pc = "store"]
    /\ UNCHANGED <<sent_count, prescan_done, flusher, pollRest>>

\* Lines 448-452: sent_count[0] = len(summaries); the next poll is scheduled
\* unless prescan_done[0].
PL_Store ==
    /\ poller.pc = "store"
    /\ sent_count' = Len(poller.summaries)
    /\ poller' = [pc |-> IF prescan_done THEN "dead" ELSE "armed", summaries |-> <<>>]
    /\ UNCHANGED <<prescan_done, flusher, delivered, pollRest>>

\* A GUI pre-scan of the two root folders, of which one holds an image and a
\* video; every request is answered.
InitPoll ==
    /\ DOWNLOAD_IMAGES_ORIGINAL = FALSE
    /\ DOWNLOAD_VIDEOS = TRUE
    /\ remote = Tree(<<LeafA, LeafV>>, <<>>)
    /\ fs = [p \in PlanPaths |-> NoFile]
    /\ before = fs
    /\ PAUSE = FALSE
    /\ IdleGui
    /\ IdleWalker
    /\ IdleClassifier
    /\ IdleConverter
    /\ sent_count = 0
    /\ prescan_done = FALSE
    /\ poller = [pc |-> "none", summaries |-> <<>>]
    /\ flusher = "start"
    /\ delivered = <<>>
    /\ raised = {}
    /\ replayed = <<>>
    /\ EXPECTED_IMAGES = 0
    /\ EXPECTED_VIDEOS = 0
    /\ ALREADY_HAVE_IMAGES = 0
    /\ ALREADY_HAVE_VIDEOS = 0
    /\ EXPECTED_TOTAL_BYTES = 0
    /\ LINK_SUMMARIES = <<>>
    /\ ppc = "idle"
    /\ urls = <<>>
    /\ scan = [w \in Workers |-> NoScan]
    /\ tasks_all = <<>>
    /\ plans = <<>>
    /\ planned = {}
    /\ fetched = {}
    /\ same = TRUE
    /\ startLen = [w \in Threads |-> 0]
    /\ INCOMPLETE_TARGETS = {}
    /\ INTERRUPTED = FALSE
    /\ bytes_written = 0
    /\ pc = [w \in Threads |-> "idle"]
    /\ target = [w \in Threads |-> NoPath]
    /\ IdleLocals
    /\ faultsLeft = 0
    /\ breaksLeft = 0
    /\ stallsLeft = 0
    /\ written = 0
    /\ results = {}
    /\ IdleCounters
    /\ mpc = "idle"
    /\ image_tasks = <<>>
    /\ video_tasks = <<>>
    /\ task = [w \in Threads |-> NoTask]

NextPoll ==
    \/ GP_Start
    \/ GP_Prescan
    \/ \E w \in Workers : P_Take(w)
    \/ \E w \in Workers : P_ScanItem(w)
    \/ \E w \in Workers : P_Summary(w)
    \/ P_End
    \/ GP_Done
    \/ GP_Flush
    \/ PL_Check
    \/ PL_Snapshot
    \/ PL_Send
    \/ PL_Store

SpecPoll == InitPoll /\ [][NextPoll]_vars

\* How often the summary of link i has been handed to add_prescan_folder.
TimesDelivered(i) ==
    Cardinality({j \in DOMAIN delivered : delivered[j] = LINK_SUMMARIES[i]})

\* C39: each summary is delivered exactly once.  No summary of the scan is
\* handed to the preview window twice, by the poller and the final flush, and
\* when the scan has finished and the poller has stopped each has been handed
\* to it.
C39_DeliveredOnce ==
    /\ \A i \in DOMAIN LINK_SUMMARIES : TimesDelivered(i) <= 1
    /\ (flusher = "finished" /\ poller.pc = "dead")
       => \A i \in DOMAIN LINK_SUMMARIES : TimesDelivered(i) = 1

====
